---- MODULE Spec2Model ----
(***************************************************************************)
(* Model of the adaptive boss controller (lib/ai/adaptive-boss.ts) and of  *)
(* the dungeon generator (class AIDungeonGenerator of lib/ai/cross-chain.ts)*)
(*                                                                         *)
(* Numbers of the program are IEEE doubles.  Fractional quantities         *)
(* (weights, learning rate, effectiveness, distances, predictability) are  *)
(* kept as integers counting 1/Scale units; counters stay plain integers.  *)
(***************************************************************************)
EXTENDS Integers, Sequences, FiniteSets, TLC

VARIABLES
  bossStates,         \* AdaptiveBossAI.bossStates
  behaviorHistory,    \* AdaptiveBossAI.behaviorHistory
  lastCall,           \* the last controller call and what it returned
  calls,              \* number of calls counted against the bound of the run
  neuralWeights,      \* AIDungeonGenerator.neuralWeights
  generationHistory,  \* AIDungeonGenerator.generationHistory
  gen,                \* the generateDungeon call suspended at its await
  dungeon,            \* how the last generateDungeon call settled
  clock               \* Date.now()

bossVars == <<bossStates, behaviorHistory, lastCall>>
dungeonVars == <<neuralWeights, generationHistory, gen, dungeon, clock>>
vars == <<bossStates, behaviorHistory, lastCall, calls,
          neuralWeights, generationHistory, gen, dungeon, clock>>

\* ------------------------------------------------------------- arithmetic

\* One unit of a fractional quantity is 1/Scale.
Scale == 10 * 100

Min(a, b) == IF a < b THEN a ELSE b
Max(a, b) == IF a > b THEN a ELSE b
Abs(a) == IF a < 0 THEN -a ELSE a

\* n / d rounded to the nearest unit (d > 0), the rounding of a double
\* division seen at the resolution of the model.
RoundDiv(n, d) == (2 * n + d) \div (2 * d)

RECURSIVE SqrtSearch(_, _, _)
SqrtSearch(n, lo, hi) ==
  IF lo >= hi THEN lo
  ELSE LET mid == (lo + hi + 1) \div 2
       IN IF mid * mid <= n THEN SqrtSearch(n, mid, hi)
                            ELSE SqrtSearch(n, lo, mid - 1)

\* Math.sqrt on a non-negative integer, rounded down to an integer.
ISqrt(n) == SqrtSearch(n, 0, Min(n, 46340))

RECURSIVE SumSeq(_)
SumSeq(s) == IF s = <<>> THEN 0 ELSE Head(s) + SumSeq(Tail(s))

\* Array.prototype.slice(-k)
SliceLast(s, k) ==
  IF Len(s) <= k THEN s ELSE SubSeq(s, Len(s) - k + 1, Len(s))

\* new Map()
EmptyMap == [x \in {} |-> 0]

\* Map.prototype.set
MapSet(m, k, v) == [x \in DOMAIN m \cup {k} |-> IF x = k THEN v ELSE m[x]]

\* ------------------------------------------------------------- catalog

Cond(m, o, v) == [metric |-> m, operator |-> o, value |-> v]

strategies == <<
  [id |-> "close-gap", name |-> "Close the Gap",
   conditions |-> << Cond("avgDistanceFromBoss", ">", 200 * Scale) >>,
   actions |-> << "dash", "ranged-attack" >>,
   priority |-> 8],
  [id |-> "defensive-counter", name |-> "Defensive Counter",
   conditions |-> << Cond("avgDistanceFromBoss", "<", 100 * Scale),
                     Cond("attackFrequency", ">", 2 * Scale) >>,
   actions |-> << "counter-attack", "knockback" >>,
   priority |-> 9],
  [id |-> "aoe-spam", name |-> "AOE Spam",
   conditions |-> << Cond("dodgeFrequency", ">", 3 * Scale) >>,
   actions |-> << "aoe-attack", "ground-hazard" >>,
   priority |-> 7],
  [id |-> "prediction-attack", name |-> "Prediction Attack",
   conditions |-> << Cond("predictability", ">", (7 * Scale) \div 10) >>,
   actions |-> << "predicted-strike", "trap-placement" >>,
   priority |-> 10],
  [id |-> "burst-damage", name |-> "Burst Damage",
   conditions |-> << Cond("healUsage", ">", 3 * Scale) >>,
   actions |-> << "combo-attack", "heal-block" >>,
   priority |-> 8] >>

StrategyIds == { strategies[i].id : i \in DOMAIN strategies }

\* ------------------------------------------------------------- boss state

\* Faulty variant of InitialBehavior: the profile starts at predictability 0.8
InitialBehaviorPredictable ==
  [avgDistanceFromBoss |-> 0,
   attackFrequency |-> 0,
   dodgeFrequency |-> 0,
   healUsage |-> 0,
   abilityUsage |-> EmptyMap,
   movementPattern |-> "balanced",
   reactionTime |-> 500,
   predictability |-> (8 * Scale) \div 10]

\* playerBehavior of the state initializeBoss builds
InitialBehavior ==
  [avgDistanceFromBoss |-> 0,
   attackFrequency |-> 0,
   dodgeFrequency |-> 0,
   healUsage |-> 0,
   abilityUsage |-> EmptyMap,
   movementPattern |-> "balanced",
   reactionTime |-> 500,
   predictability |-> Scale \div 2]

NewBossState(bossId, maxHealth) ==
  [bossId |-> bossId,
   currentPhase |-> 1,
   health |-> maxHealth,
   maxHealth |-> maxHealth,
   playerBehavior |-> InitialBehavior,
   adaptations |-> << >>,
   learningRate |-> Scale \div 10,
   aggressionLevel |-> 5,
   strategyWeights |-> [id \in StrategyIds |-> Scale]]

Known(bossId) == bossId \in DOMAIN bossStates

NoInsights ==
  [currentStrategy |-> "", playerProfile |-> <<"", 0>>,
   adaptations |-> << >>, difficulty |-> 0]

\* What the last call returned: value is the returned scalar ("undefined" for
\* a void return, "null", a strategy id, ...), actions a returned action list,
\* number a returned number, insights a returned insights object.
Returned(op, bossId, value, actions, number, insights) ==
  [op |-> op, bossId |-> bossId, value |-> value, actions |-> actions,
   number |-> number, insights |-> insights]

Void(op, bossId) == Returned(op, bossId, "undefined", << >>, 0, NoInsights)

\* Faulty variant of InitializeBoss: the map of boss states is rebuilt on every
\* initialization, dropping the other encounters
InitializeBossAlone(bossId, maxHealth) ==
  /\ bossStates' = MapSet(EmptyMap, bossId, NewBossState(bossId, maxHealth))
  /\ lastCall' = Returned("initializeBoss", bossId, "state", << >>, 0, NoInsights)
  /\ UNCHANGED behaviorHistory

\* AdaptiveBossAI.initializeBoss
InitializeBoss(bossId, maxHealth) ==
  /\ bossStates' = MapSet(bossStates, bossId, NewBossState(bossId, maxHealth))
  /\ lastCall' = Returned("initializeBoss", bossId, "state", << >>, 0, NoInsights)
  /\ UNCHANGED behaviorHistory

\* this.behaviorHistory.get(bossId) || []
HistoryOf(bossId) ==
  IF bossId \in DOMAIN behaviorHistory THEN behaviorHistory[bossId] ELSE << >>

\* AdaptiveBossAI.calculateDistance; exact when the squared distance is a
\* perfect square, rounded down to a whole unit of distance otherwise.
CalculateDistance(pos1, pos2) ==
  Scale * ISqrt((pos1[1] - pos2[1]) * (pos1[1] - pos2[1])
                + (pos1[2] - pos2[2]) * (pos1[2] - pos2[2]))

\* AdaptiveBossAI.detectMovementPattern
DetectMovementPattern(bossId) ==
  LET history == HistoryOf(bossId) IN
  IF bossId \notin DOMAIN behaviorHistory \/ Len(history) < 10 THEN "balanced"
  ELSE
    LET recent == SliceLast(history, 10)
        dist == [i \in 1..Len(recent) |-> recent[i].avgDistanceFromBoss]
        avgDistance == SumSeq(dist) \div Len(recent)
        distanceVariance ==
          SumSeq([i \in 1..Len(recent) |-> Abs(dist[i] - avgDistance)])
            \div Len(recent)
    IN IF avgDistance > 250 * Scale THEN "backpedal"
       ELSE IF avgDistance < 100 * Scale THEN "aggressive"
       ELSE IF distanceVariance < 30 * Scale THEN "circle"
       ELSE "erratic"

\* AdaptiveBossAI.calculateVariance: the standard deviation of integer
\* samples, in 1/Scale units, rounded down.  With n samples of sum s,
\* variance = (n * sum of squares - s * s) / n^2; n (20) divides Scale.
CalculateVariance(values) ==
  LET n == Len(values)
      s == SumSeq(values)
      sq == SumSeq([i \in 1..n |-> values[i] * values[i]])
  IN ISqrt((n * sq - s * s) * (Scale \div n) * (Scale \div n))

\* Faulty variant of CalculatePredictability: Math.min(1, .) is forgotten
CalculatePredictabilityNoMin(bossId) ==
  LET history == HistoryOf(bossId) IN
  IF bossId \notin DOMAIN behaviorHistory \/ Len(history) < 20 THEN Scale \div 2
  ELSE
    LET recent == SliceLast(history, 20)
        attackVariance ==
          CalculateVariance([i \in 1..Len(recent) |-> recent[i].attackFrequency])
        dodgeVariance ==
          CalculateVariance([i \in 1..Len(recent) |-> recent[i].dodgeFrequency])
    IN Scale - (attackVariance + dodgeVariance) \div 10

\* Faulty variant of CalculatePredictability: ten samples are taken for enough
CalculatePredictabilityEarly(bossId) ==
  LET history == HistoryOf(bossId) IN
  IF bossId \notin DOMAIN behaviorHistory \/ Len(history) < 10 THEN Scale \div 2
  ELSE
    LET recent == SliceLast(history, 20)
        attackVariance ==
          CalculateVariance([i \in 1..Len(recent) |-> recent[i].attackFrequency])
        dodgeVariance ==
          CalculateVariance([i \in 1..Len(recent) |-> recent[i].dodgeFrequency])
    IN Scale - Min(Scale, (attackVariance + dodgeVariance) \div 10)

\* AdaptiveBossAI.calculatePredictability
CalculatePredictability(bossId) ==
  LET history == HistoryOf(bossId) IN
  IF bossId \notin DOMAIN behaviorHistory \/ Len(history) < 20 THEN Scale \div 2
  ELSE
    LET recent == SliceLast(history, 20)
        attackVariance ==
          CalculateVariance([i \in 1..Len(recent) |-> recent[i].attackFrequency])
        dodgeVariance ==
          CalculateVariance([i \in 1..Len(recent) |-> recent[i].dodgeFrequency])
    IN Scale - Min(Scale, (attackVariance + dodgeVariance) \div 10)

\* The switch of updatePlayerBehavior on action.type
ApplyAction(behavior, action) ==
  CASE action.type = "attack" ->
         [behavior EXCEPT !.attackFrequency = @ + 1]
    [] action.type = "dodge" ->
         [behavior EXCEPT !.dodgeFrequency = @ + 1]
    [] action.type = "heal" ->
         [behavior EXCEPT !.healUsage = @ + 1]
    [] action.type = "ability" ->
         IF action.abilityId # ""
         THEN LET count == IF action.abilityId \in DOMAIN behavior.abilityUsage
                           THEN behavior.abilityUsage[action.abilityId] ELSE 0
              IN [behavior EXCEPT
                    !.abilityUsage = MapSet(@, action.abilityId, count + 1)]
         ELSE behavior
    [] action.type = "move" ->
         IF action.hasPosition /\ action.hasBossPosition
         THEN [behavior EXCEPT !.avgDistanceFromBoss =
                 (@ + CalculateDistance(action.position, action.bossPosition))
                   \div 2]
         ELSE behavior
    [] OTHER -> behavior

\* Faulty variant of PushHistory: a full history drops the sample just pushed
PushHistoryDropsNewest(history, behavior) ==
  LET pushed == Append(history, behavior)
  IN IF Len(pushed) > 100 THEN SubSeq(pushed, 1, 100) ELSE pushed

\* history.push({...behavior}); if (history.length > 100) history.shift()
PushHistory(history, behavior) ==
  LET pushed == Append(history, behavior)
  IN IF Len(pushed) > 100 THEN Tail(pushed) ELSE pushed

\* Faulty variant of UpdatePlayerBehavior: the history is stored before the boss is
\* looked up, so a sample is kept for an id that was never initialized
UpdatePlayerBehaviorStoresFirst(bossId, action) ==
  /\ lastCall' = Void("updatePlayerBehavior", bossId)
  /\ IF ~Known(bossId)
     THEN /\ UNCHANGED bossStates
          /\ behaviorHistory' =
               MapSet(behaviorHistory, bossId,
                      PushHistory(HistoryOf(bossId), InitialBehavior))
     ELSE LET counted == ApplyAction(bossStates[bossId].playerBehavior, action)
              behavior == [counted EXCEPT
                 !.movementPattern = DetectMovementPattern(bossId),
                 !.predictability = CalculatePredictability(bossId)]
          IN /\ bossStates' = [bossStates EXCEPT ![bossId].playerBehavior = behavior]
             /\ behaviorHistory' =
                  MapSet(behaviorHistory, bossId,
                         PushHistory(HistoryOf(bossId), behavior))

\* AdaptiveBossAI.updatePlayerBehavior
UpdatePlayerBehavior(bossId, action) ==
  /\ lastCall' = Void("updatePlayerBehavior", bossId)
  /\ IF ~Known(bossId)
     THEN UNCHANGED <<bossStates, behaviorHistory>>
     ELSE LET counted == ApplyAction(bossStates[bossId].playerBehavior, action)
              behavior == [counted EXCEPT
                 !.movementPattern = DetectMovementPattern(bossId),
                 !.predictability = CalculatePredictability(bossId)]
          IN /\ bossStates' = [bossStates EXCEPT ![bossId].playerBehavior = behavior]
             /\ behaviorHistory' =
                  MapSet(behaviorHistory, bossId,
                         PushHistory(HistoryOf(bossId), behavior))

\* behavior[condition.metric], 0 unless it is a number; counters are
\* brought to 1/Scale units for the comparison with condition.value.
MetricValue(behavior, metric) ==
  CASE metric = "avgDistanceFromBoss" -> behavior.avgDistanceFromBoss
    [] metric = "attackFrequency" -> behavior.attackFrequency * Scale
    [] metric = "dodgeFrequency" -> behavior.dodgeFrequency * Scale
    [] metric = "healUsage" -> behavior.healUsage * Scale
    [] metric = "reactionTime" -> behavior.reactionTime * Scale
    [] metric = "predictability" -> behavior.predictability
    [] OTHER -> 0

\* Faulty variant of ConditionHolds: the cases '>' and '<' are exchanged
ConditionHoldsExchanged(behavior, condition) ==
  LET numValue == MetricValue(behavior, condition.metric) IN
  CASE condition.operator = ">" -> numValue < condition.value
    [] condition.operator = "<" -> numValue > condition.value
    [] condition.operator = "==" -> numValue = condition.value
    [] condition.operator = ">=" -> numValue >= condition.value
    [] OTHER -> FALSE

\* The switch of selectStrategy on condition.operator
ConditionHolds(behavior, condition) ==
  LET numValue == MetricValue(behavior, condition.metric) IN
  CASE condition.operator = ">" -> numValue > condition.value
    [] condition.operator = "<" -> numValue < condition.value
    [] condition.operator = "==" -> numValue = condition.value
    [] condition.operator = ">=" -> numValue >= condition.value
    [] OTHER -> FALSE

\* Faulty variant of ConditionsMet: Array.prototype.some instead of every
ConditionsMetSome(behavior, strategy) ==
  \E c \in DOMAIN strategy.conditions :
    ConditionHolds(behavior, strategy.conditions[c])

\* strategy.conditions.every(...)
ConditionsMet(behavior, strategy) ==
  \A c \in DOMAIN strategy.conditions :
    ConditionHolds(behavior, strategy.conditions[c])

\* state.strategyWeights.get(id) || 1.0
WeightOr1(weights, id) ==
  IF id \in DOMAIN weights /\ weights[id] # 0 THEN weights[id] ELSE Scale

\* Faulty variant of StrategyScore: a strategy that was executed before
\* scores half
StrategyScoreHalvesUsed(state, strategy) ==
  IF ~ConditionsMet(state.playerBehavior, strategy) THEN 0
  ELSE IF \E a \in DOMAIN state.adaptations :
            state.adaptations[a].trigger = strategy.name
       THEN (strategy.priority * WeightOr1(state.strategyWeights, strategy.id)) \div 2
       ELSE strategy.priority * WeightOr1(state.strategyWeights, strategy.id)

\* The score selectStrategy gives one strategy, in 1/Scale units
StrategyScore(state, strategy) ==
  IF ~ConditionsMet(state.playerBehavior, strategy) THEN 0
  ELSE strategy.priority * WeightOr1(state.strategyWeights, strategy.id)

\* Faulty variant of MaxOf: Math.min instead of Math.max
RECURSIVE MinOf(_)
MinOf(s) == IF Len(s) = 1 THEN s[1] ELSE Min(Head(s), MinOf(Tail(s)))

\* Math.max(...scores)
RECURSIVE MaxOf(_)
MaxOf(s) == IF Len(s) = 1 THEN s[1] ELSE Max(Head(s), MaxOf(Tail(s)))

\* Faulty variant of IndexOf: Array.prototype.lastIndexOf
LastIndexOf(s, v) ==
  IF \E i \in DOMAIN s : s[i] = v
  THEN CHOOSE i \in DOMAIN s : s[i] = v /\ \A j \in (i + 1)..Len(s) : s[j] # v
  ELSE 0

\* Array.prototype.indexOf, 1-based; 0 when absent
IndexOf(s, v) ==
  IF \E i \in DOMAIN s : s[i] = v
  THEN CHOOSE i \in DOMAIN s : s[i] = v /\ \A j \in 1..(i - 1) : s[j] # v
  ELSE 0

\* The body of selectStrategy for a known boss: the selected strategy's
\* index in the catalog, 0 for null.
SelectIndex(state) ==
  LET scores == [i \in DOMAIN strategies |-> StrategyScore(state, strategies[i])]
      maxScore == MaxOf(scores)
  IN IF maxScore = 0 THEN 0 ELSE IndexOf(scores, maxScore)

\* AdaptiveBossAI.selectStrategy, as the id of the strategy or "null"
SelectStrategyResult(bossId) ==
  IF ~Known(bossId) THEN "null"
  ELSE LET i == SelectIndex(bossStates[bossId])
       IN IF i = 0 THEN "null" ELSE strategies[i].id

SelectStrategy(bossId) ==
  /\ lastCall' = Returned("selectStrategy", bossId, SelectStrategyResult(bossId),
                          << >>, 0, NoInsights)
  /\ UNCHANGED <<bossStates, behaviorHistory>>

\* state.adaptations.find(a => a.trigger === trigger), 0 when absent
FindAdaptation(adaptations, trigger) ==
  IndexOf([i \in DOMAIN adaptations |-> adaptations[i].trigger], trigger)

\* Faulty variant of ExecuteBossAction: the adaptation is pushed without looking
\* for an existing entry
ExecuteBossActionAlwaysPushes(bossId, strategy) ==
  IF ~Known(bossId)
  THEN /\ lastCall' = Returned("executeBossAction", bossId, "actions", << >>,
                               0, NoInsights)
       /\ UNCHANGED <<bossStates, behaviorHistory>>
  ELSE LET adaptation == [type |-> "attack_pattern",
                          trigger |-> strategy.name,
                          effect |-> strategy.actions,
                          effectiveness |-> 0,
                          timesUsed |-> 1]
       IN /\ bossStates' = [bossStates EXCEPT ![bossId].adaptations =
                 Append(@, adaptation)]
          /\ lastCall' = Returned("executeBossAction", bossId, "actions",
                                  strategy.actions, 0, NoInsights)
          /\ UNCHANGED behaviorHistory

\* AdaptiveBossAI.executeBossAction
ExecuteBossAction(bossId, strategy) ==
  IF ~Known(bossId)
  THEN /\ lastCall' = Returned("executeBossAction", bossId, "actions", << >>,
                               0, NoInsights)
       /\ UNCHANGED <<bossStates, behaviorHistory>>
  ELSE LET adaptation == [type |-> "attack_pattern",
                          trigger |-> strategy.name,
                          effect |-> strategy.actions,
                          effectiveness |-> 0,
                          timesUsed |-> 1]
           existing == FindAdaptation(bossStates[bossId].adaptations,
                                      adaptation.trigger)
       IN /\ bossStates' = [bossStates EXCEPT ![bossId].adaptations =
                 IF existing # 0
                 THEN [@ EXCEPT ![existing].timesUsed = @ + 1]
                 ELSE Append(@, adaptation)]
          /\ lastCall' = Returned("executeBossAction", bossId, "actions",
                                  strategy.actions, 0, NoInsights)
          /\ UNCHANGED behaviorHistory

\* a.trigger.includes(strategyId) on the strings the model passes: a string
\* includes itself and the empty string; "Burst" is a substring of the name
\* "Burst Damage"; no catalog id is a substring of a catalog name.
Includes(trigger, text) ==
  \/ text = ""
  \/ text = trigger
  \/ (trigger = "Burst Damage" /\ text = "Burst")

\* state.adaptations.find(a => a.trigger.includes(strategyId)), 0 when absent
FindAdaptationIncluding(adaptations, strategyId) ==
  IF \E i \in DOMAIN adaptations : Includes(adaptations[i].trigger, strategyId)
  THEN CHOOSE i \in DOMAIN adaptations :
         /\ Includes(adaptations[i].trigger, strategyId)
         /\ \A j \in 1..(i - 1) : ~Includes(adaptations[j].trigger, strategyId)
  ELSE 0

\* The effectiveness learnFromOutcome computes from an outcome
Effectiveness(outcome) ==
  (IF outcome.playerHit THEN Scale \div 2 ELSE 0)
  + (IF outcome.damageDealt > 0 THEN (outcome.damageDealt * Scale) \div 100 ELSE 0)
  + (IF ~outcome.playerDodged THEN (3 * Scale) \div 10 ELSE 0)

\* Faulty variant of ClampWeight: the upper clamp Math.min(3.0, .) is forgotten
ClampWeightNoUpper(newWeight) == Max(Scale \div 10, newWeight)

\* Math.max(0.1, Math.min(3.0, newWeight))
ClampWeight(newWeight) == Max(Scale \div 10, Min(3 * Scale, newWeight))

\* Faulty variant of NewWeight: the step is subtracted
NewWeightAway(currentWeight, learningRate, effectiveness) ==
  currentWeight - RoundDiv(learningRate * (effectiveness - currentWeight), Scale)

\* currentWeight + state.learningRate * (effectiveness - currentWeight)
NewWeight(currentWeight, learningRate, effectiveness) ==
  currentWeight + RoundDiv(learningRate * (effectiveness - currentWeight), Scale)

\* Faulty variant of LearnFromOutcome: the weights of the other strategies are
\* reset to 1.0
LearnFromOutcomeResetsOthers(bossId, strategyId, outcome) ==
  /\ lastCall' = Void("learnFromOutcome", bossId)
  /\ UNCHANGED behaviorHistory
  /\ IF ~Known(bossId)
     THEN UNCHANGED bossStates
     ELSE LET state == bossStates[bossId]
              currentWeight == WeightOr1(state.strategyWeights, strategyId)
              effectiveness == Effectiveness(outcome)
              newWeight == NewWeight(currentWeight, state.learningRate, effectiveness)
          IN bossStates' = [bossStates EXCEPT
               ![bossId].strategyWeights =
                  MapSet([k \in DOMAIN @ |-> Scale], strategyId,
                         ClampWeight(newWeight))]

\* AdaptiveBossAI.learnFromOutcome
LearnFromOutcome(bossId, strategyId, outcome) ==
  /\ lastCall' = Void("learnFromOutcome", bossId)
  /\ UNCHANGED behaviorHistory
  /\ IF ~Known(bossId)
     THEN UNCHANGED bossStates
     ELSE LET state == bossStates[bossId]
              currentWeight == WeightOr1(state.strategyWeights, strategyId)
              effectiveness == Effectiveness(outcome)
              newWeight == NewWeight(currentWeight, state.learningRate, effectiveness)
              adaptation == FindAdaptationIncluding(state.adaptations, strategyId)
          IN bossStates' = [bossStates EXCEPT
               ![bossId].strategyWeights =
                  MapSet(@, strategyId, ClampWeight(newWeight)),
               ![bossId].adaptations =
                  IF adaptation # 0
                  THEN [@ EXCEPT ![adaptation].effectiveness =
                          RoundDiv(@ * (state.adaptations[adaptation].timesUsed - 1)
                                     + effectiveness,
                                   state.adaptations[adaptation].timesUsed)]
                  ELSE @]

\* Faulty variant of TransitionPhase: the learned weights are reset with the counters
TransitionPhaseResetsWeights(bossId, newPhase) ==
  /\ lastCall' = Void("transitionPhase", bossId)
  /\ UNCHANGED behaviorHistory
  /\ IF ~Known(bossId)
     THEN UNCHANGED bossStates
     ELSE bossStates' = [bossStates EXCEPT
            ![bossId].currentPhase = newPhase,
            ![bossId].aggressionLevel = Min(10, 5 + newPhase * 2),
            ![bossId].learningRate =
               Min((3 * Scale) \div 10, Scale \div 10 + newPhase * (Scale \div 20)),
            ![bossId].playerBehavior.attackFrequency = 0,
            ![bossId].playerBehavior.dodgeFrequency = 0,
            ![bossId].playerBehavior.healUsage = 0,
            ![bossId].strategyWeights = [id \in DOMAIN @ |-> Scale]]

\* Faulty variant of TransitionPhase: Math.min(0.3, .) is forgotten
TransitionPhaseUncappedRate(bossId, newPhase) ==
  /\ lastCall' = Void("transitionPhase", bossId)
  /\ UNCHANGED behaviorHistory
  /\ IF ~Known(bossId)
     THEN UNCHANGED bossStates
     ELSE bossStates' = [bossStates EXCEPT
            ![bossId].currentPhase = newPhase,
            ![bossId].aggressionLevel = Min(10, 5 + newPhase * 2),
            ![bossId].learningRate = Scale \div 10 + newPhase * (Scale \div 20),
            ![bossId].playerBehavior.attackFrequency = 0,
            ![bossId].playerBehavior.dodgeFrequency = 0,
            ![bossId].playerBehavior.healUsage = 0]

\* AdaptiveBossAI.transitionPhase
TransitionPhase(bossId, newPhase) ==
  /\ lastCall' = Void("transitionPhase", bossId)
  /\ UNCHANGED behaviorHistory
  /\ IF ~Known(bossId)
     THEN UNCHANGED bossStates
     ELSE bossStates' = [bossStates EXCEPT
            ![bossId].currentPhase = newPhase,
            ![bossId].aggressionLevel = Min(10, 5 + newPhase * 2),
            ![bossId].learningRate =
               Min((3 * Scale) \div 10, Scale \div 10 + newPhase * (Scale \div 20)),
            ![bossId].playerBehavior.attackFrequency = 0,
            ![bossId].playerBehavior.dodgeFrequency = 0,
            ![bossId].playerBehavior.healUsage = 0]

\* Faulty variant of DifficultyMultiplier: Math.min(0.5, .) is forgotten
DifficultyMultiplierUncapped(bossId) ==
  IF ~Known(bossId) THEN Scale
  ELSE LET state == bossStates[bossId]
           adaptationBonus == Len(state.adaptations) * (Scale \div 20)
           phaseBonus == (state.currentPhase - 1) * (Scale \div 5)
       IN Scale + adaptationBonus + phaseBonus

\* AdaptiveBossAI.getDifficultyMultiplier, in 1/Scale units
DifficultyMultiplier(bossId) ==
  IF ~Known(bossId) THEN Scale
  ELSE LET state == bossStates[bossId]
           adaptationBonus == Min(Scale \div 2, Len(state.adaptations) * (Scale \div 20))
           phaseBonus == (state.currentPhase - 1) * (Scale \div 5)
       IN Scale + adaptationBonus + phaseBonus

GetDifficultyMultiplier(bossId) ==
  /\ lastCall' = Returned("getDifficultyMultiplier", bossId, "number", << >>,
                          DifficultyMultiplier(bossId), NoInsights)
  /\ UNCHANGED <<bossStates, behaviorHistory>>

\* strategy?.name || 'None'
StrategyName(id) ==
  IF id = "null" THEN "None"
  ELSE strategies[CHOOSE i \in DOMAIN strategies : strategies[i].id = id].name

\* AdaptiveBossAI.getAIInsights
GetAIInsights(bossId) ==
  /\ UNCHANGED <<bossStates, behaviorHistory>>
  /\ IF ~Known(bossId)
     THEN lastCall' = Returned("getAIInsights", bossId, "null", << >>, 0, NoInsights)
     ELSE LET state == bossStates[bossId] IN
          lastCall' = Returned("getAIInsights", bossId, "insights", << >>, 0,
            [currentStrategy |-> StrategyName(SelectStrategyResult(bossId)),
             playerProfile |->
               << state.playerBehavior.movementPattern,
                  RoundDiv(state.playerBehavior.predictability * 100, Scale) >>,
             adaptations |->
               [i \in DOMAIN state.adaptations |->
                  << state.adaptations[i].trigger,
                     RoundDiv(state.adaptations[i].effectiveness * 100, Scale) >>],
             difficulty |-> DifficultyMultiplier(bossId)])

\* ------------------------------------------------------------- dungeon generator

\* Positions, difficulties and scores of the generator: desiredDifficulty,
\* room difficulty and aiScore count tenths, the room_type weights count
\* hundredths, a value of Math.random() counts hundredths (0..99).

\* this.neuralWeights after initializeNeuralWeights, in hundredths
InitialNeuralWeights ==
  [room_type |-> <<30, 20, 15, 10, 15, 10>>,
   enemy_density |-> <<40, 30, 20, 10>>,
   hazard_placement |-> <<50, 30, 20>>,
   loot_quality |-> <<20, 30, 30, 20>>,
   layout_complexity |-> <<25, 35, 25, 15>>]

Theme(id, difficulty, enemyTypes, hazards, lootTier) ==
  [id |-> id, difficulty |-> difficulty, enemyTypes |-> enemyTypes,
   hazards |-> hazards, lootTier |-> lootTier]

\* params.theme of a request without a theme
NoTheme == Theme("", 0, << >>, << >>, 0)

\* The themes of selectTheme
themes == <<
  Theme("crypt", 3, <<"skeleton", "ghost", "zombie", "necromancer">>,
        <<"spike-trap", "poison-gas", "curse-zone">>, 2),
  Theme("volcano", 7, <<"fire-elemental", "lava-beast", "flame-imp">>,
        <<"lava-pool", "fire-geyser", "heat-wave">>, 4),
  Theme("void", 9, <<"void-spawn", "shadow-beast", "eldritch-horror">>,
        <<"void-rift", "madness-zone", "gravity-well">>, 5) >>

\* Faulty variant of SelectTheme: the last theme within 3 of the level is taken
SelectThemeLast(params) ==
  IF \E t \in DOMAIN themes : Abs(themes[t].difficulty - params.playerLevel) < 3
  THEN themes[CHOOSE t \in DOMAIN themes :
                /\ Abs(themes[t].difficulty - params.playerLevel) < 3
                /\ \A u \in (t + 1)..Len(themes) :
                     ~(Abs(themes[u].difficulty - params.playerLevel) < 3)]
  ELSE themes[1]

\* AIDungeonGenerator.selectTheme
SelectTheme(params) ==
  IF \E t \in DOMAIN themes : Abs(themes[t].difficulty - params.playerLevel) < 3
  THEN themes[CHOOSE t \in DOMAIN themes :
                /\ Abs(themes[t].difficulty - params.playerLevel) < 3
                /\ \A u \in 1..(t - 1) :
                     ~(Abs(themes[u].difficulty - params.playerLevel) < 3)]
  ELSE themes[1]

\* The k-th value Math.random() returns during the generation of one room
Rand(tape, pos) == tape[(pos % Len(tape)) + 1]

\* Math.floor(Math.random() * len)
RandomIndex(tape, pos, len) == (Rand(tape, pos) * len) \div 100

RoomTypes == <<"combat", "puzzle", "treasure", "boss", "safe", "trap">>

\* Faulty variant of RoomTypeScores: the boss score does not depend on progress
RoomTypeScoresBossAnywhere(params, roomIndex, totalRooms) ==
  LET weights == neuralWeights.room_type
      d == params.desiredDifficulty
      deaths == params.previousPerformance.deathCount
      aggressive == IF params.playStyle = "aggressive" THEN 1 ELSE 0
      defensive == IF params.playStyle = "defensive" THEN 1 ELSE 0
      stealth == IF params.playStyle = "stealth" THEN 1 ELSE 0
  IN << d * weights[1] * totalRooms + aggressive * 5000 * totalRooms,
        roomIndex * weights[2] * 100 + defensive * 3000 * totalRooms,
        deaths * weights[3] * 10 * totalRooms + roomIndex * 4000,
        weights[4] * 200 * totalRooms,
        IF deaths > 5 THEN weights[5] * 100 * totalRooms ELSE 0,
        d * weights[6] * totalRooms + stealth * 6000 * totalRooms >>

\* The scores of predictRoomType, each multiplied by 10000 * totalRooms
RoomTypeScores(params, roomIndex, totalRooms) ==
  LET weights == neuralWeights.room_type
      d == params.desiredDifficulty
      deaths == params.previousPerformance.deathCount
      aggressive == IF params.playStyle = "aggressive" THEN 1 ELSE 0
      defensive == IF params.playStyle = "defensive" THEN 1 ELSE 0
      stealth == IF params.playStyle = "stealth" THEN 1 ELSE 0
  IN << d * weights[1] * totalRooms + aggressive * 5000 * totalRooms,
        roomIndex * weights[2] * 100 + defensive * 3000 * totalRooms,
        deaths * weights[3] * 10 * totalRooms + roomIndex * 4000,
        IF 5 * roomIndex > 4 * totalRooms THEN weights[4] * 200 * totalRooms ELSE 0,
        IF deaths > 5 THEN weights[5] * 100 * totalRooms ELSE 0,
        d * weights[6] * totalRooms + stealth * 6000 * totalRooms >>

\* Object.entries(scores).reduce((a, b) => b[1] > a[1] ? b : a)[0]
RECURSIVE ReduceMax(_, _, _)
ReduceMax(scores, best, k) ==
  IF k > Len(scores) THEN best
  ELSE ReduceMax(scores, IF scores[k] > scores[best] THEN k ELSE best, k + 1)

\* Faulty variant of PredictRoomType: the safe room rule is tried before the
\* boss room rule
PredictRoomTypeSafeFirst(params, roomIndex, totalRooms, tape, pos) ==
  IF params.previousPerformance.deathCount > 5 /\ Rand(tape, pos) < 30
  THEN [type |-> "safe", pos |-> pos + 1]
  ELSE IF roomIndex = totalRooms - 1 THEN [type |-> "boss", pos |-> pos]
  ELSE [type |-> RoomTypes[ReduceMax(
                   RoomTypeScores(params, roomIndex, totalRooms), 1, 2)],
        pos |-> pos]

\* AIDungeonGenerator.predictRoomType: the type and the next random position
PredictRoomType(params, roomIndex, totalRooms, tape, pos) ==
  IF roomIndex = totalRooms - 1 THEN [type |-> "boss", pos |-> pos]
  ELSE IF params.previousPerformance.deathCount > 5
  THEN IF Rand(tape, pos) < 30
       THEN [type |-> "safe", pos |-> pos + 1]
       ELSE [type |-> RoomTypes[ReduceMax(
                        RoomTypeScores(params, roomIndex, totalRooms), 1, 2)],
             pos |-> pos + 1]
  ELSE [type |-> RoomTypes[ReduceMax(
                   RoomTypeScores(params, roomIndex, totalRooms), 1, 2)],
        pos |-> pos]

\* Math.floor(10 + difficulty * 2)
LayoutSize(difficulty) == (100 + 2 * difficulty) \div 10

\* layout[y]?.[x], -1 for undefined; a layout is the sequence of its rows
Cell(layout, x, y) ==
  IF y >= 0 /\ y < Len(layout) /\ x >= 0 /\ x < Len(layout[y + 1])
  THEN layout[y + 1][x + 1] ELSE -1

IsFloor(layout, x, y) == IF Cell(layout, x, y) = 1 THEN 1 ELSE 0

\* AIDungeonGenerator.countNeighbors
CountNeighbors(layout, x, y) ==
  IsFloor(layout, x - 1, y - 1) + IsFloor(layout, x, y - 1)
  + IsFloor(layout, x + 1, y - 1) + IsFloor(layout, x - 1, y)
  + IsFloor(layout, x + 1, y) + IsFloor(layout, x - 1, y + 1)
  + IsFloor(layout, x, y + 1) + IsFloor(layout, x + 1, y + 1)

Interior(size, x, y) == y >= 1 /\ y < size - 1 /\ x >= 1 /\ x < size - 1

\* The random initial state of generateLayout: interior cell (x, y) takes
\* the draw numbered by its place in the row-major scan of the interior.
SeedCell(size, floorChance, tape, pos, x, y) ==
  IF Interior(size, x, y)
  THEN IF Rand(tape, pos + (y - 1) * (size - 2) + (x - 1)) < floorChance
       THEN 1 ELSE 0
  ELSE 0

RECURSIVE SeedRow(_, _, _, _, _, _)
SeedRow(size, floorChance, tape, pos, x, y) ==
  IF x >= size THEN << >>
  ELSE <<SeedCell(size, floorChance, tape, pos, x, y)>>
         \o SeedRow(size, floorChance, tape, pos, x + 1, y)

RECURSIVE SeedRows(_, _, _, _, _)
SeedRows(size, floorChance, tape, pos, y) ==
  IF y >= size THEN << >>
  ELSE <<SeedRow(size, floorChance, tape, pos, 0, y)>>
         \o SeedRows(size, floorChance, tape, pos, y + 1)

\* One cell of a cellular automata iteration of generateLayout
AutomatonCell(layout, size, x, y) ==
  IF Interior(size, x, y)
  THEN IF Cell(layout, x, y) = 1
       THEN (IF CountNeighbors(layout, x, y) >= 4 THEN 1 ELSE 0)
       ELSE (IF CountNeighbors(layout, x, y) >= 5 THEN 1 ELSE 0)
  ELSE Cell(layout, x, y)

RECURSIVE AutomatonRow(_, _, _, _)
AutomatonRow(layout, size, x, y) ==
  IF x >= size THEN << >>
  ELSE <<AutomatonCell(layout, size, x, y)>> \o AutomatonRow(layout, size, x + 1, y)

RECURSIVE AutomatonRows(_, _, _)
AutomatonRows(layout, size, y) ==
  IF y >= size THEN << >>
  ELSE <<AutomatonRow(layout, size, 0, y)>> \o AutomatonRows(layout, size, y + 1)

\* for (let iter = 0; iter < 3; iter++) ...
RECURSIVE Iterate(_, _, _)
Iterate(layout, size, iter) ==
  IF iter >= 3 THEN layout
  ELSE Iterate(AutomatonRows(layout, size, 0), size, iter + 1)

\* layout[y][x] = v
SetCell(layout, x, y, v) == [layout EXCEPT ![y + 1][x + 1] = v]

\* Faulty variant of AddDoors: both assignments write row 0
AddDoorsTopOnly(layout, size) ==
  SetCell(SetCell(layout, size \div 2, 0, 2), size \div 2, 0, 2)

\* The two door assignments of generateLayout
AddDoors(layout, size) ==
  SetCell(SetCell(layout, size \div 2, 0, 2), size \div 2, size - 1, 2)

\* AIDungeonGenerator.generateLayout: thrown when layout[0] is undefined at
\* the first door assignment (size <= 0), else the layout and the next
\* random position
GenerateLayout(roomType, difficulty, tape, pos) ==
  LET size == LayoutSize(difficulty)
      floorChance == IF roomType = "boss" THEN 60 ELSE 50
  IN IF size <= 0
     THEN [thrown |-> TRUE, layout |-> << >>, pos |-> pos]
     ELSE [thrown |-> FALSE,
           layout |-> AddDoors(
             Iterate(SeedRows(size, floorChance, tape, pos, 0), size, 0), size),
           pos |-> pos + (IF size > 2 THEN (size - 2) * (size - 2) ELSE 0)]

\* Faulty variant of FloorTilesOfRow: every cell that is not a wall is taken
NonWallTilesOfRow(layout, x, y) ==
  LET cells == [k \in 1..Len(layout[y + 1]) |-> [x |-> k - 1, y |-> y]]
      RECURSIVE Keep(_)
      Keep(k) == IF k > Len(cells) THEN << >>
                 ELSE (IF layout[y + 1][k] # 0 THEN <<cells[k]>> ELSE << >>)
                        \o Keep(k + 1)
  IN IF x >= Len(layout[y + 1]) THEN << >> ELSE Keep(x + 1)

\* The inner loop of getFloorTiles on row y
RECURSIVE FloorTilesOfRow(_, _, _)
FloorTilesOfRow(layout, x, y) ==
  IF x >= Len(layout[y + 1]) THEN << >>
  ELSE (IF layout[y + 1][x + 1] = 1 THEN << [x |-> x, y |-> y] >> ELSE << >>)
         \o FloorTilesOfRow(layout, x + 1, y)

\* The outer loop of getFloorTiles from row y on
RECURSIVE FloorTilesFrom(_, _)
FloorTilesFrom(layout, y) ==
  IF y >= Len(layout) THEN << >>
  ELSE FloorTilesOfRow(layout, 0, y) \o FloorTilesFrom(layout, y + 1)

\* AIDungeonGenerator.getFloorTiles
GetFloorTiles(layout) == FloorTilesFrom(layout, 0)

\* Faulty variant of RemoveAt: the tile is read but left in the list
RemoveAtKeeps(s, k) == s

\* Array.prototype.splice(k, 1) of the 0-based index k: what is left
RemoveAt(s, k) == SubSeq(s, 1, k) \o SubSeq(s, k + 2, Len(s))

\* Array.prototype.filter with a membership test
RECURSIVE Filter(_, _, _)
Filter(s, set, keepMembers) ==
  IF s = << >> THEN << >>
  ELSE (IF (Head(s) \in set) = keepMembers THEN <<Head(s)>> ELSE << >>)
         \o Filter(Tail(s), set, keepMembers)

\* Faulty variant of SelectEnemyType: the preferred enemies are taken from the
\* whole theme, not from the enemies left after the avoided ones
SelectEnemyTypePreferredOfTheme(theme, params, tape, pos) ==
  LET availableEnemies ==
        Filter(theme.enemyTypes, params.previousPerformance.avoidedEnemies, FALSE)
      preferredEnemies ==
        Filter(theme.enemyTypes, params.previousPerformance.preferredEnemies, TRUE)
  IN IF Len(availableEnemies) = 0
     THEN [type |-> theme.enemyTypes[1], pos |-> pos]
     ELSE IF Len(preferredEnemies) > 0
     THEN IF Rand(tape, pos) < 60
          THEN [type |-> preferredEnemies[
                           RandomIndex(tape, pos + 1, Len(preferredEnemies)) + 1],
                pos |-> pos + 2]
          ELSE [type |-> availableEnemies[
                           RandomIndex(tape, pos + 1, Len(availableEnemies)) + 1],
                pos |-> pos + 2]
     ELSE [type |-> availableEnemies[
                      RandomIndex(tape, pos, Len(availableEnemies)) + 1],
           pos |-> pos + 1]

\* AIDungeonGenerator.selectEnemyType
SelectEnemyType(theme, params, tape, pos) ==
  LET availableEnemies ==
        Filter(theme.enemyTypes, params.previousPerformance.avoidedEnemies, FALSE)
      preferredEnemies ==
        Filter(availableEnemies, params.previousPerformance.preferredEnemies, TRUE)
  IN IF Len(availableEnemies) = 0
     THEN [type |-> theme.enemyTypes[1], pos |-> pos]
     ELSE IF Len(preferredEnemies) > 0
     THEN IF Rand(tape, pos) < 60
          THEN [type |-> preferredEnemies[
                           RandomIndex(tape, pos + 1, Len(preferredEnemies)) + 1],
                pos |-> pos + 2]
          ELSE [type |-> availableEnemies[
                           RandomIndex(tape, pos + 1, Len(availableEnemies)) + 1],
                pos |-> pos + 2]
     ELSE [type |-> availableEnemies[
                      RandomIndex(tape, pos, Len(availableEnemies)) + 1],
           pos |-> pos + 1]

\* The behaviors of selectEnemyBehavior
EnemyBehaviors(playStyle) ==
  CASE playStyle = "aggressive" -> <<"defensive", "ranged", "support">>
    [] playStyle = "defensive" -> <<"aggressive", "flanking", "burst">>
    [] playStyle = "stealth" -> <<"patrol", "alert", "group">>
    [] OTHER -> <<"balanced", "adaptive", "mixed">>

\* AIDungeonGenerator.selectEnemyBehavior
SelectEnemyBehavior(playStyle, tape, pos) ==
  EnemyBehaviors(playStyle)[RandomIndex(tape, pos, 3) + 1]

\* The loop of placeEnemies
RECURSIVE PlaceEnemiesLoop(_, _, _, _, _, _, _, _)
PlaceEnemiesLoop(i, enemyCount, floorTiles, theme, params, tape, pos, enemies) ==
  IF ~(i < enemyCount /\ Len(floorTiles) > 0)
  THEN [enemies |-> enemies, pos |-> pos]
  ELSE LET tileIndex == RandomIndex(tape, pos, Len(floorTiles))
           enemyType == SelectEnemyType(theme, params, tape, pos + 1)
           behavior == SelectEnemyBehavior(params.playStyle, tape, enemyType.pos)
       IN PlaceEnemiesLoop(i + 1, enemyCount, RemoveAt(floorTiles, tileIndex),
            theme, params, tape, enemyType.pos + 1,
            Append(enemies, [type |-> enemyType.type,
                             position |-> floorTiles[tileIndex + 1],
                             behavior |-> behavior]))

\* Faulty variant of PlaceEnemies: a boss room is filled like any other room
PlaceEnemiesBossCrowd(layout, theme, params, roomType, tape, pos) ==
  IF roomType = "safe" \/ roomType = "treasure"
  THEN [enemies |-> << >>, pos |-> pos]
  ELSE PlaceEnemiesLoop(0, (20 + params.desiredDifficulty) \div 10,
         GetFloorTiles(layout), theme, params, tape, pos, << >>)

\* AIDungeonGenerator.placeEnemies; desiredDifficulty counts tenths
PlaceEnemies(layout, theme, params, roomType, tape, pos) ==
  IF roomType = "safe" \/ roomType = "treasure"
  THEN [enemies |-> << >>, pos |-> pos]
  ELSE PlaceEnemiesLoop(0,
         IF roomType = "boss" THEN 1 ELSE (20 + params.desiredDifficulty) \div 10,
         GetFloorTiles(layout), theme, params, tape, pos, << >>)

\* AIDungeonGenerator.selectItemRarity
SelectItemRarity(lootTier, playerLevel, tape, pos) ==
  LET rand == Rand(tape, pos)
      tierBonus == lootTier * 10
  IN IF rand < 5 + tierBonus THEN "mythic"
     ELSE IF rand < 15 + tierBonus THEN "legendary"
     ELSE IF rand < 35 + tierBonus THEN "epic"
     ELSE IF rand < 65 THEN "rare"
     ELSE "common"

ItemTypes == <<"weapon", "armor", "potion", "scroll", "relic">>

\* AIDungeonGenerator.selectItemType
SelectItemType(rarity, tape, pos) ==
  ItemTypes[RandomIndex(tape, pos, Len(ItemTypes)) + 1]

\* The loop of placeItems; rarity is drawn before the type
RECURSIVE PlaceItemsLoop(_, _, _, _, _, _, _, _)
PlaceItemsLoop(i, itemCount, floorTiles, theme, playerLevel, tape, pos, items) ==
  IF ~(i < itemCount /\ Len(floorTiles) > 0)
  THEN [items |-> items, pos |-> pos]
  ELSE LET tileIndex == RandomIndex(tape, pos, Len(floorTiles))
           rarity == SelectItemRarity(theme.lootTier, playerLevel, tape, pos + 1)
       IN PlaceItemsLoop(i + 1, itemCount, RemoveAt(floorTiles, tileIndex),
            theme, playerLevel, tape, pos + 3,
            Append(items, [type |-> SelectItemType(rarity, tape, pos + 2),
                           position |-> floorTiles[tileIndex + 1],
                           rarity |-> rarity]))

\* AIDungeonGenerator.placeItems
PlaceItems(layout, theme, playerLevel, roomType, tape, pos) ==
  PlaceItemsLoop(0,
    IF roomType = "treasure" THEN 5 ELSE IF roomType = "boss" THEN 3 ELSE 1,
    GetFloorTiles(layout), theme, playerLevel, tape, pos, << >>)

\* The loop of placeHazards; theme.hazards[k] of an empty list is undefined
RECURSIVE PlaceHazardsLoop(_, _, _, _, _, _, _)
PlaceHazardsLoop(i, hazardCount, floorTiles, theme, tape, pos, hazards) ==
  IF ~(i < hazardCount /\ Len(floorTiles) > 0)
  THEN [hazards |-> hazards, pos |-> pos]
  ELSE LET tileIndex == RandomIndex(tape, pos, Len(floorTiles))
           hazardType ==
             IF Len(theme.hazards) = 0 THEN "undefined"
             ELSE theme.hazards[RandomIndex(tape, pos + 1, Len(theme.hazards)) + 1]
       IN PlaceHazardsLoop(i + 1, hazardCount, RemoveAt(floorTiles, tileIndex),
            theme, tape, pos + 2,
            Append(hazards, [type |-> hazardType,
                             position |-> floorTiles[tileIndex + 1]]))

\* AIDungeonGenerator.placeHazards; difficulty counts tenths
PlaceHazards(layout, theme, difficulty, tape, pos) ==
  PlaceHazardsLoop(0, difficulty \div 20, GetFloorTiles(layout), theme, tape,
                   pos, << >>)

\* The inner loop of calculateLayoutComplexity on row y, in tenths
RECURSIVE ComplexityOfRow(_, _, _)
ComplexityOfRow(layout, x, y) ==
  IF x >= Len(layout[y + 1]) - 1 THEN 0
  ELSE (IF layout[y + 1][x + 1] = 1
        THEN (IF CountNeighbors(layout, x, y) <= 2 THEN 5 ELSE 3)
        ELSE 0)
       + ComplexityOfRow(layout, x + 1, y)

\* The outer loop of calculateLayoutComplexity from row y on
RECURSIVE ComplexityFrom(_, _)
ComplexityFrom(layout, y) ==
  IF y >= Len(layout) - 1 THEN 0
  ELSE ComplexityOfRow(layout, 1, y) + ComplexityFrom(layout, y + 1)

\* AIDungeonGenerator.calculateLayoutComplexity, in tenths
CalculateLayoutComplexity(layout) == ComplexityFrom(layout, 1)

\* AIDungeonGenerator.calculateRoomDifficulty, in tenths
CalculateRoomDifficulty(enemies, hazards, layout) ==
  Len(enemies) * 20 + Len(hazards) * 15 + CalculateLayoutComplexity(layout)

\* AIDungeonGenerator.scoreRoom, in tenths
ScoreRoom(enemies, items, hazards, layout, params) ==
  LET balance ==
        IF 2 * Len(enemies) > Len(items) + 1 /\ Len(enemies) < 3 * (Len(items) + 1)
        THEN 100 ELSE 0
      uniqueEnemies == Cardinality({ enemies[k].type : k \in DOMAIN enemies })
      preferredEnemyCount ==
        Cardinality({ k \in DOMAIN enemies :
          enemies[k].type \in params.previousPerformance.preferredEnemies })
  IN Min(1000, balance + uniqueEnemies * 50 + CalculateLayoutComplexity(layout)
                 + preferredEnemyCount * 30)

\* AIDungeonGenerator.generateRoom with the values Math.random() returns
\* during the call; the id room-<Date.now()>-<roomIndex> is kept as the pair
GenerateRoom(params, theme, roomIndex, totalRooms, tape) ==
  LET roomType == PredictRoomType(params, roomIndex, totalRooms, tape, 0)
      built == GenerateLayout(roomType.type, params.desiredDifficulty, tape,
                              roomType.pos)
      enemies == PlaceEnemies(built.layout, theme, params, roomType.type, tape,
                              built.pos)
      items == PlaceItems(built.layout, theme, params.playerLevel, roomType.type,
                          tape, enemies.pos)
      hazards == PlaceHazards(built.layout, theme, params.desiredDifficulty, tape,
                              items.pos)
  IN IF built.thrown THEN [thrown |-> TRUE, room |-> << >>]
     ELSE [thrown |-> FALSE,
           room |->
             [id |-> <<clock, roomIndex>>,
              type |-> roomType.type,
              layout |-> built.layout,
              enemies |-> enemies.enemies,
              items |-> items.items,
              hazards |-> hazards.hazards,
              difficulty |-> CalculateRoomDifficulty(enemies.enemies,
                               hazards.hazards, built.layout),
              aiScore |-> ScoreRoom(enemies.enemies, items.items, hazards.hazards,
                                    built.layout, params)]]

\* The params of no call
NoParams ==
  [playerLevel |-> 0, playStyle |-> "",
   previousPerformance |->
     [deathCount |-> 0, preferredEnemies |-> {}, avoidedEnemies |-> {}],
   desiredDifficulty |-> 0, hasTheme |-> FALSE, theme |-> NoTheme]

\* A number of the result that may be NaN
Num(v) == [nan |-> FALSE, v |-> v]
NaN == [nan |-> TRUE, v |-> 0]

\* AIDungeonGenerator.calculateDungeonDifficulty, in tenths; 0 / 0 is NaN
CalculateDungeonDifficulty(rooms) ==
  IF Len(rooms) = 0 THEN NaN
  ELSE Num(RoundDiv(SumSeq([k \in DOMAIN rooms |-> rooms[k].difficulty]),
                    Len(rooms)))

\* AIDungeonGenerator.calculateConfidence, in 1/Scale units;
\* Math.max(0, Math.min(1, NaN)) is NaN
CalculateConfidence(rooms, params) ==
  IF Len(rooms) = 0 THEN NaN
  ELSE LET scoreSum == SumSeq([k \in DOMAIN rooms |-> rooms[k].aiScore])
           difficultyMatch ==
             Abs(CalculateDungeonDifficulty(rooms).v - params.desiredDifficulty)
           confidence ==
             RoundDiv(7 * scoreSum * (Scale \div 1000), 10 * Len(rooms))
               + (3 * Scale) \div 10 - 3 * difficultyMatch * (Scale \div 1000)
       IN Num(Max(0, Min(Scale, confidence)))

Idle == [pc |-> "idle"]

\* Faulty variant of LoopContinues: the bound of the loop is inclusive
LoopContinuesInclusive(i, roomCount) == i <= roomCount

\* The condition of the loop of generateDungeon: i < roomCount
LoopContinues(i, roomCount) == i < roomCount

\* Faulty variant of FinishDungeon: the history is replaced by the rooms of
\* the call
FinishDungeonReplacesHistory(rooms, theme, params, roomCount) ==
  /\ generationHistory' = rooms
  /\ dungeon' = [status |-> "resolved",
                 params |-> params,
                 roomCount |-> roomCount,
                 rooms |-> rooms,
                 theme |-> theme,
                 estimatedDifficulty |-> CalculateDungeonDifficulty(rooms),
                 aiConfidence |-> CalculateConfidence(rooms, params)]
  /\ gen' = Idle

\* The end of generateDungeon after its loop: the history grows and the
\* promise resolves
FinishDungeon(rooms, theme, params, roomCount) ==
  /\ generationHistory' = generationHistory \o rooms
  /\ dungeon' = [status |-> "resolved",
                 params |-> params,
                 roomCount |-> roomCount,
                 rooms |-> rooms,
                 theme |-> theme,
                 estimatedDifficulty |-> CalculateDungeonDifficulty(rooms),
                 aiConfidence |-> CalculateConfidence(rooms, params)]
  /\ gen' = Idle

\* An exception of generateRoom rejects the promise of generateDungeon
RejectDungeon(theme, params, roomCount) ==
  /\ dungeon' = [status |-> "rejected", params |-> params,
                 roomCount |-> roomCount, rooms |-> << >>, theme |-> theme,
                 estimatedDifficulty |-> NaN, aiConfidence |-> NaN]
  /\ gen' = Idle
  /\ UNCHANGED generationHistory

\* generateRoom(params, theme, i, roomCount) followed by the await of the loop
AwaitRoom(params, roomCount, theme, i, rooms, tape) ==
  LET made == GenerateRoom(params, theme, i, roomCount, tape)
  IN IF made.thrown THEN RejectDungeon(theme, params, roomCount)
     ELSE /\ gen' = [pc |-> "await", params |-> params, roomCount |-> roomCount,
                     theme |-> theme, i |-> i, rooms |-> rooms,
                     pending |-> made.room]
          /\ UNCHANGED <<generationHistory, dungeon>>

\* AIDungeonGenerator.generateDungeon up to its first await: the theme is
\* chosen and, when the loop is entered, room 0 is generated
GenerateDungeon(params, roomCount, tape) ==
  /\ gen.pc = "idle"
  /\ LET theme == IF params.hasTheme THEN params.theme ELSE SelectTheme(params)
     IN IF LoopContinues(0, roomCount)
        THEN AwaitRoom(params, roomCount, theme, 0, << >>, tape)
        ELSE FinishDungeon(<< >>, theme, params, roomCount)
  /\ UNCHANGED <<neuralWeights, clock>>

\* AIDungeonGenerator.generateDungeon resumed after an await: the room is
\* pushed, then the next room is generated or the call ends
ResumeGenerateDungeon(tape) ==
  /\ gen.pc = "await"
  /\ LET rooms == Append(gen.rooms, gen.pending)
     IN IF LoopContinues(gen.i + 1, gen.roomCount)
        THEN AwaitRoom(gen.params, gen.roomCount, gen.theme, gen.i + 1, rooms, tape)
        ELSE FinishDungeon(rooms, gen.theme, gen.params, gen.roomCount)
  /\ UNCHANGED <<neuralWeights, clock>>

\* this.generationHistory.find(r => r.id === roomId), 0 when absent
FindRoom(roomId) ==
  IndexOf([k \in DOMAIN generationHistory |-> generationHistory[k].id], roomId)

\* Faulty variant of LearnFromFeedback: the comparisons with 7 and 8 are inclusive
LearnFromFeedbackInclusive(roomId, playerFeedback) ==
  /\ gen.pc = "idle"
  /\ UNCHANGED <<generationHistory, gen, dungeon, clock>>
  /\ LET room == FindRoom(roomId) IN
     IF room = 0 THEN UNCHANGED neuralWeights
     ELSE LET typeIndex == IndexOf(RoomTypes, generationHistory[room].type)
              reinforced ==
                IF playerFeedback.enjoyment >= 7 /\ playerFeedback.completed
                   /\ typeIndex >= 1
                THEN [neuralWeights EXCEPT !.room_type[typeIndex] = @ + 1]
                ELSE neuralWeights
          IN neuralWeights' =
               IF playerFeedback.difficulty >= 8 /\ ~playerFeedback.completed
               THEN [reinforced EXCEPT !.enemy_density[1] = Max(10, @ - 1)]
               ELSE reinforced

\* AIDungeonGenerator.learnFromFeedback; the call runs between the steps of
\* no generateDungeon call
LearnFromFeedback(roomId, playerFeedback) ==
  /\ gen.pc = "idle"
  /\ UNCHANGED <<generationHistory, gen, dungeon, clock>>
  /\ LET room == FindRoom(roomId) IN
     IF room = 0 THEN UNCHANGED neuralWeights
     ELSE LET typeIndex == IndexOf(RoomTypes, generationHistory[room].type)
              reinforced ==
                IF playerFeedback.enjoyment > 7 /\ playerFeedback.completed
                   /\ typeIndex >= 1
                THEN [neuralWeights EXCEPT !.room_type[typeIndex] = @ + 1]
                ELSE neuralWeights
          IN neuralWeights' =
               IF playerFeedback.difficulty > 8 /\ ~playerFeedback.completed
               THEN [reinforced EXCEPT !.enemy_density[1] = Max(10, @ - 1)]
               ELSE reinforced

\* ------------------------------------------------------------- inputs

\* Number of controller calls in one run
MaxCalls == 4

BossIds == {"b1", "b2"}

MaxHealths == {100}

Action(type, hasPos, pos, hasBoss, boss, abilityId) ==
  [type |-> type, hasPosition |-> hasPos, position |-> pos,
   hasBossPosition |-> hasBoss, bossPosition |-> boss, abilityId |-> abilityId]

Plain(type) == Action(type, FALSE, <<0, 0>>, FALSE, <<0, 0>>, "")

\* The player actions fed to updatePlayerBehavior: one of each type, an
\* ability with and without an id, a move 500 away from the boss, a move 60
\* away and a move that carries no boss position.
Actions ==
  { Plain("attack"), Plain("dodge"), Plain("heal"), Plain("ability"),
    Action("ability", FALSE, <<0, 0>>, FALSE, <<0, 0>>, "fireball"),
    Action("move", TRUE, <<300, 400>>, TRUE, <<0, 0>>, ""),
    Action("move", TRUE, <<0, 60>>, TRUE, <<0, 0>>, ""),
    Action("move", TRUE, <<300, 400>>, FALSE, <<0, 0>>, "") }

\* Strategy ids passed to learnFromOutcome: catalog ids and ids outside it
LearnIds == {"close-gap", "prediction-attack", "unknown-strategy", "Burst"}

Outcome(damage, hit, dodged) ==
  [damageDealt |-> damage, playerHit |-> hit, playerDodged |-> dodged]

Outcomes ==
  { Outcome(0, FALSE, TRUE), Outcome(50, TRUE, FALSE),
    Outcome(3000, TRUE, FALSE), Outcome(-20, FALSE, FALSE) }

\* newPhase values passed to transitionPhase
Phases == {0, 2, 4}

\* ------------------------------------------------------------- controller

Init ==
  /\ bossStates = EmptyMap
  /\ behaviorHistory = EmptyMap
  /\ lastCall = Void("constructor", "")
  /\ calls = 0
  /\ neuralWeights = InitialNeuralWeights
  /\ generationHistory = << >>
  /\ gen = Idle
  /\ dungeon = [status |-> "none", params |-> NoParams, roomCount |-> 0,
                rooms |-> << >>, theme |-> NoTheme,
                estimatedDifficulty |-> NaN, aiConfidence |-> NaN]
  /\ clock = 0

Call(handler) ==
  calls < MaxCalls /\ calls' = calls + 1 /\ handler /\ UNCHANGED dungeonVars

Next ==
  \/ \E b \in BossIds, h \in MaxHealths : Call(InitializeBoss(b, h))
  \/ \E b \in BossIds, a \in Actions : Call(UpdatePlayerBehavior(b, a))
  \/ \E b \in BossIds : Call(SelectStrategy(b))
  \/ \E b \in BossIds, i \in DOMAIN strategies : Call(ExecuteBossAction(b, strategies[i]))
  \/ \E b \in BossIds, id \in LearnIds, o \in Outcomes : Call(LearnFromOutcome(b, id, o))
  \/ \E b \in BossIds, p \in Phases : Call(TransitionPhase(b, p))
  \/ \E b \in BossIds : Call(GetDifficultyMultiplier(b))
  \/ \E b \in BossIds : Call(GetAIInsights(b))

Spec == Init /\ [][Next]_vars

\* ------------------------------------------------------------- one encounter

\* The boss of the single-encounter specifications
TheBoss == "b1"

Behavior(bossId) == bossStates[bossId].playerBehavior

\* "ability" without an abilityId: the action changes no metric and only
\* adds a sample to the history
IdleSample == Plain("ability")

FarMove == Action("move", TRUE, <<300, 400>>, TRUE, <<0, 0>>, "")

\* Largest attack, dodge and heal counter of a scripted encounter
MaxCount == 4

\* Largest number of samples of a scripted encounter
MaxSamples == 21

\* Number of learnFromOutcome calls of a scripted encounter
MaxLearns == 1

ScriptActions == { FarMove, IdleSample, Plain("attack"), Plain("dodge"), Plain("heal") }

\* The player of a scripted encounter moves first, then idles, then attacks,
\* then dodges, then heals.
InScript(bossId, action) ==
  LET b == Behavior(bossId) IN
  CASE action.type = "move" -> Len(HistoryOf(bossId)) = 0
    [] action.type = "ability" ->
         b.attackFrequency = 0 /\ b.dodgeFrequency = 0 /\ b.healUsage = 0
    [] action.type = "attack" ->
         b.dodgeFrequency = 0 /\ b.healUsage = 0 /\ b.attackFrequency < MaxCount
    [] action.type = "dodge" -> b.healUsage = 0 /\ b.dodgeFrequency < MaxCount
    [] action.type = "heal" -> b.healUsage < MaxCount
    [] OTHER -> FALSE

ScriptLearnIds == {"close-gap", "prediction-attack", "burst-damage"}

ScriptOutcomes == { Outcome(0, FALSE, TRUE), Outcome(3000, TRUE, FALSE) }

ScriptInitialize ==
  /\ ~Known(TheBoss)
  /\ \E h \in MaxHealths : InitializeBoss(TheBoss, h)
  /\ UNCHANGED <<calls, neuralWeights, generationHistory, gen, dungeon, clock>>

\* Outcomes are learnt before the player acts
ScriptLearn ==
  /\ Known(TheBoss)
  /\ Len(HistoryOf(TheBoss)) = 0
  /\ calls < MaxLearns
  /\ calls' = calls + 1
  /\ \E id \in ScriptLearnIds, o \in ScriptOutcomes : LearnFromOutcome(TheBoss, id, o)
  /\ UNCHANGED dungeonVars

ScriptUpdate ==
  /\ Known(TheBoss)
  /\ Len(HistoryOf(TheBoss)) < MaxSamples
  /\ \E a \in ScriptActions :
       InScript(TheBoss, a) /\ UpdatePlayerBehavior(TheBoss, a)
  /\ UNCHANGED <<calls, neuralWeights, generationHistory, gen, dungeon, clock>>

ScriptSelect ==
  /\ Known(TheBoss)
  /\ SelectStrategy(TheBoss)
  /\ UNCHANGED <<calls, neuralWeights, generationHistory, gen, dungeon, clock>>

NextSelect == ScriptInitialize \/ ScriptLearn \/ ScriptUpdate \/ ScriptSelect

SpecSelect == Init /\ [][NextSelect]_vars

\* Largest number of samples of a phase-change encounter
MaxPhaseSamples == 35

\* The player of a phase-change encounter idles, attacks, then dodges during
\* phase 1 and idles after the transition to phase 2.
InPhaseScript(bossId, action) ==
  LET b == Behavior(bossId) IN
  CASE action.type = "ability" -> b.attackFrequency = 0 /\ b.dodgeFrequency = 0
    [] action.type = "attack" ->
         bossStates[bossId].currentPhase = 1 /\ b.dodgeFrequency = 0
    [] action.type = "dodge" -> bossStates[bossId].currentPhase = 1
    [] OTHER -> FALSE

PhaseInitialize ==
  /\ ~Known(TheBoss)
  /\ \E h \in MaxHealths : InitializeBoss(TheBoss, h)
  /\ UNCHANGED <<calls, neuralWeights, generationHistory, gen, dungeon, clock>>

PhaseUpdate ==
  /\ Known(TheBoss)
  /\ Len(HistoryOf(TheBoss)) < MaxPhaseSamples
  /\ \E a \in { IdleSample, Plain("attack"), Plain("dodge") } :
       InPhaseScript(TheBoss, a) /\ UpdatePlayerBehavior(TheBoss, a)
  /\ UNCHANGED <<calls, neuralWeights, generationHistory, gen, dungeon, clock>>

PhaseTransition ==
  /\ Known(TheBoss)
  /\ bossStates[TheBoss].currentPhase = 1
  /\ TransitionPhase(TheBoss, 2)
  /\ UNCHANGED <<calls, neuralWeights, generationHistory, gen, dungeon, clock>>

NextPhase == PhaseInitialize \/ PhaseUpdate \/ PhaseTransition

SpecPhase == Init /\ [][NextPhase]_vars

\* ------------------------------------------------------------- two encounters

\* Largest dodge counter of an encounter of the two-encounter specification
MaxDodges == 5

\* Largest heal counter of an encounter of the two-encounter specification
MaxHeals == 4

PairLearnIds == {"aoe-spam", "burst-damage"}

PairOutcome == Outcome(3000, TRUE, FALSE)

PairInitialize ==
  /\ \E b \in BossIds, h \in MaxHealths : ~Known(b) /\ InitializeBoss(b, h)
  /\ UNCHANGED <<calls, neuralWeights, generationHistory, gen, dungeon, clock>>

\* One outcome is learnt in an encounter, before the player acts
PairLearn ==
  /\ \E b \in BossIds, id \in PairLearnIds :
       /\ Known(b)
       /\ HistoryOf(b) = << >>
       /\ \A i \in StrategyIds : bossStates[b].strategyWeights[i] = Scale
       /\ LearnFromOutcome(b, id, PairOutcome)
  /\ UNCHANGED <<calls, neuralWeights, generationHistory, gen, dungeon, clock>>

\* Burst Damage is executed at most once in an encounter
PairExecute ==
  /\ \E b \in BossIds :
       /\ Known(b)
       /\ bossStates[b].adaptations = << >>
       /\ ExecuteBossAction(b, strategies[5])
  /\ UNCHANGED <<calls, neuralWeights, generationHistory, gen, dungeon, clock>>

\* An encounter may enter phase 2 before the player acts
PairTransition ==
  /\ \E b \in BossIds :
       /\ Known(b)
       /\ HistoryOf(b) = << >>
       /\ bossStates[b].currentPhase = 1
       /\ TransitionPhase(b, 2)
  /\ UNCHANGED <<calls, neuralWeights, generationHistory, gen, dungeon, clock>>

\* The player dodges MaxDodges times, then heals
PairUpdate ==
  /\ \E b \in BossIds :
       /\ Known(b)
       /\ \/ /\ Behavior(b).healUsage = 0
             /\ Behavior(b).dodgeFrequency < MaxDodges
             /\ UpdatePlayerBehavior(b, Plain("dodge"))
          \/ /\ Behavior(b).dodgeFrequency = MaxDodges
             /\ Behavior(b).healUsage < MaxHeals
             /\ UpdatePlayerBehavior(b, Plain("heal"))
  /\ UNCHANGED <<calls, neuralWeights, generationHistory, gen, dungeon, clock>>

PairSelect ==
  /\ \E b \in BossIds : Known(b) /\ SelectStrategy(b)
  /\ UNCHANGED <<calls, neuralWeights, generationHistory, gen, dungeon, clock>>

NextPair ==
  \/ PairInitialize
  \/ PairLearn
  \/ PairExecute
  \/ PairTransition
  \/ PairUpdate
  \/ PairSelect

SpecPair == Init /\ [][NextPair]_vars

\* ------------------------------------------------------------- learning

\* Number of learnFromOutcome calls of a learning encounter
MaxDeepLearns == 2

\* newPhase values of a learning encounter: below 1, rising, and past the
\* caps of aggressionLevel and learningRate
DeepPhases == {-4, 0, 1, 2, 4, 6}

DeepLearnIds == {"aoe-spam", "unknown-strategy"}

DeepInitialize ==
  /\ ~Known(TheBoss)
  /\ \E h \in MaxHealths : InitializeBoss(TheBoss, h)
  /\ UNCHANGED <<calls, neuralWeights, generationHistory, gen, dungeon, clock>>

DeepTransition ==
  /\ Known(TheBoss)
  /\ \E p \in DeepPhases : TransitionPhase(TheBoss, p)
  /\ UNCHANGED <<calls, neuralWeights, generationHistory, gen, dungeon, clock>>

DeepLearn ==
  /\ Known(TheBoss)
  /\ calls < MaxDeepLearns
  /\ calls' = calls + 1
  /\ \E id \in DeepLearnIds, o \in Outcomes : LearnFromOutcome(TheBoss, id, o)
  /\ UNCHANGED dungeonVars

NextLearn == DeepInitialize \/ DeepTransition \/ DeepLearn

SpecLearn == Init /\ [][NextLearn]_vars

\* ------------------------------------------------------------- adaptation log

\* Number of executeBossAction calls of a logging encounter
MaxExecutes == 12

\* Strategies a caller builds itself (BossStrategy is an exported type): the
\* first has its id as its name, the others follow the catalog's naming.
ExtraStrategy(id, name) ==
  [id |-> id, name |-> name, conditions |-> << >>,
   actions |-> << "taunt" >>, priority |-> 1]

ExtraStrategies == <<
  ExtraStrategy("enrage", "enrage"),
  ExtraStrategy("extra-2", "Extra 2"),
  ExtraStrategy("extra-3", "Extra 3"),
  ExtraStrategy("extra-4", "Extra 4"),
  ExtraStrategy("extra-5", "Extra 5"),
  ExtraStrategy("extra-6", "Extra 6"),
  ExtraStrategy("extra-7", "Extra 7") >>

\* The strategies passed to executeBossAction: the catalog, then the others
LogStrategies == strategies \o ExtraStrategies

LogLearnIds == {"close-gap", "enrage"}

LogOutcomes == { Outcome(0, FALSE, TRUE), Outcome(50, TRUE, FALSE) }

\* newPhase values of a logging encounter
LogPhases == {0, 3}

LogInitialize ==
  /\ ~Known(TheBoss)
  /\ \E h \in MaxHealths : InitializeBoss(TheBoss, h)
  /\ UNCHANGED <<calls, neuralWeights, generationHistory, gen, dungeon, clock>>

\* Strategies are first executed in the order of LogStrategies; Close the
\* Gap and enrage are the ones executed again.
LogExecute ==
  /\ Known(TheBoss)
  /\ calls < MaxExecutes
  /\ calls' = calls + 1
  /\ \E i \in DOMAIN LogStrategies :
       /\ \/ i = Len(bossStates[TheBoss].adaptations) + 1
          \/ (i \in {1, 6} /\ i <= Len(bossStates[TheBoss].adaptations))
       /\ ExecuteBossAction(TheBoss, LogStrategies[i])
  /\ UNCHANGED dungeonVars

\* One outcome is learnt for a strategy id
LogLearn ==
  /\ Known(TheBoss)
  /\ \E id \in LogLearnIds, o \in LogOutcomes :
       /\ WeightOr1(bossStates[TheBoss].strategyWeights, id) = Scale
       /\ LearnFromOutcome(TheBoss, id, o)
  /\ UNCHANGED <<calls, neuralWeights, generationHistory, gen, dungeon, clock>>

LogTransition ==
  /\ Known(TheBoss)
  /\ bossStates[TheBoss].currentPhase = 1
  /\ \E p \in LogPhases : TransitionPhase(TheBoss, p)
  /\ UNCHANGED <<calls, neuralWeights, generationHistory, gen, dungeon, clock>>

LogMultiplier ==
  /\ Known(TheBoss)
  /\ GetDifficultyMultiplier(TheBoss)
  /\ UNCHANGED <<calls, neuralWeights, generationHistory, gen, dungeon, clock>>

NextLog ==
  \/ LogInitialize
  \/ LogExecute
  \/ LogLearn
  \/ LogTransition
  \/ LogMultiplier

SpecLog == Init /\ [][NextLog]_vars

\* ------------------------------------------------------------- second encounter

\* Largest number of samples kept for the boss of a repeated encounter
MaxRepeatSamples == 22

\* The player of a repeated encounter moves away at most twice and idles
\* before the first attack of an encounter.
InRepeatScript(bossId, action) ==
  LET b == Behavior(bossId) IN
  CASE action.type = "move" ->
         b.attackFrequency = 0 /\ b.avgDistanceFromBoss < 300 * Scale
    [] action.type = "ability" -> b.attackFrequency = 0
    [] action.type = "attack" -> TRUE
    [] OTHER -> FALSE

\* initializeBoss is called for a new boss, and again for the same id once
\* 20 samples are kept and the running encounter has recorded an action;
\* calls counts the actions recorded since the last initializeBoss
RepeatInitialize ==
  /\ Known(TheBoss) => (Len(HistoryOf(TheBoss)) >= 20 /\ calls > 0)
  /\ \E h \in MaxHealths : InitializeBoss(TheBoss, h)
  /\ calls' = 0
  /\ UNCHANGED dungeonVars

RepeatUpdate ==
  /\ Known(TheBoss)
  /\ Len(HistoryOf(TheBoss)) < MaxRepeatSamples
  /\ \E a \in { FarMove, IdleSample, Plain("attack") } :
       InRepeatScript(TheBoss, a) /\ UpdatePlayerBehavior(TheBoss, a)
  /\ calls' = calls + 1
  /\ UNCHANGED dungeonVars

NextRepeat == RepeatInitialize \/ RepeatUpdate

SpecRepeat == Init /\ [][NextRepeat]_vars

\* ------------------------------------------------------------- long encounter

\* Largest number of updatePlayerBehavior calls of a long encounter
MaxLongSamples == 103

\* The player of a long encounter attacks, and may idle once 98 samples are
\* kept.
LongInitialize ==
  /\ ~Known(TheBoss)
  /\ \E h \in MaxHealths : InitializeBoss(TheBoss, h)
  /\ UNCHANGED <<calls, neuralWeights, generationHistory, gen, dungeon, clock>>

LongUpdate ==
  /\ Known(TheBoss)
  /\ calls < MaxLongSamples
  /\ calls' = calls + 1
  /\ \/ UpdatePlayerBehavior(TheBoss, Plain("attack"))
     \/ (Len(HistoryOf(TheBoss)) >= 98 /\ UpdatePlayerBehavior(TheBoss, IdleSample))
  /\ UNCHANGED dungeonVars

NextLong == LongInitialize \/ LongUpdate

SpecLong == Init /\ [][NextLong]_vars

\* ------------------------------------------------------------- generation

\* Length of the cycle of values Math.random() returns during one room
TapeLen == 2

\* The values of Math.random(), in hundredths
RandVals == {0, 55, 99}

Tapes == [1..TapeLen -> RandVals]

\* Number of learnFromFeedback calls in one run
MaxFeedback == 1

Params(level, style, deaths, preferred, avoided, difficulty, hasTheme, theme) ==
  [playerLevel |-> level,
   playStyle |-> style,
   previousPerformance |->
     [deathCount |-> deaths, preferredEnemies |-> preferred,
      avoidedEnemies |-> avoided],
   desiredDifficulty |-> difficulty,
   hasTheme |-> hasTheme,
   theme |-> theme]

\* A theme supplied by the caller
CustomTheme == Theme("swamp", 2, <<"slime", "toad">>, <<"bog">>, 1)

\* Requests for rooms of 14 and 15 cells a side (desiredDifficulty 2 and 2.5)
LargeParams ==
  << Params(1, "balanced", 0, {}, {}, 20, FALSE, NoTheme),
     Params(8, "aggressive", 6, {"fire-elemental"}, {"lava-beast"}, 25,
            FALSE, NoTheme) >>

\* Requests for rooms of 6 cells, 2 cells, 1 cell and no cell a side
\* (desiredDifficulty -2, -4, -4.5 and -5)
SmallParams ==
  { Params(1, "defensive", 0, {"slime"}, {"slime", "toad"}, -20, TRUE, CustomTheme),
    Params(12, "stealth", 7, {}, {}, -40, FALSE, NoTheme),
    Params(5, "balanced", 0, {}, {}, -45, FALSE, NoTheme),
    Params(5, "balanced", 0, {}, {}, -50, FALSE, NoTheme) }

RoomCounts == {-1, 0, 1, 2}

\* A request of a level 10 player, within 3 of the void theme only
VoidParams == Params(10, "balanced", 0, {}, {}, 10, FALSE, NoTheme)

\* A request whose preferred enemy is also an avoided one
BothListsParams == Params(1, "balanced", 0, {"slime"}, {"slime"}, -20, TRUE, CustomTheme)

\* The calls of generateDungeon: <<params, roomCount>>
Requests ==
  (SmallParams \X RoomCounts)
  \cup { <<LargeParams[1], 1>>, <<LargeParams[2], 2>>, <<VoidParams, 0>>,
         <<BothListsParams, 1>> }

Feedback(enjoyment, difficulty, completed) ==
  [enjoyment |-> enjoyment, difficulty |-> difficulty, completed |-> completed,
   timeSpent |-> 60]

Feedbacks == { Feedback(9, 5, TRUE), Feedback(3, 9, FALSE) }

\* Ids passed to learnFromFeedback: the ids of the history and a foreign one
FeedbackIds ==
  { generationHistory[k].id : k \in DOMAIN generationHistory } \cup { <<0, 99>> }

\* generateDungeon is called once in a run
CallGenerateDungeon ==
  /\ dungeon.status = "none"
  /\ gen.pc = "idle"
  /\ \E request \in Requests, tape \in Tapes :
       GenerateDungeon(request[1], request[2], tape)
  /\ UNCHANGED <<bossVars, calls>>

Resume ==
  /\ \E tape \in Tapes : ResumeGenerateDungeon(tape)
  /\ UNCHANGED <<bossVars, calls>>

CallLearnFromFeedback ==
  /\ calls < MaxFeedback
  /\ calls' = calls + 1
  /\ \E roomId \in FeedbackIds, fb \in Feedbacks : LearnFromFeedback(roomId, fb)
  /\ UNCHANGED bossVars

NextDungeon == CallGenerateDungeon \/ Resume \/ CallLearnFromFeedback

SpecDungeon == Init /\ [][NextDungeon]_vars

\* ------------------------------------------------------------- feedback

\* Largest room_type weight, in hundredths, at which a room is still praised
MaxTypeWeight == 100

\* Two-room requests of a defensive and of a stealthy player
FeedbackRequests ==
  { <<Params(1, "defensive", 0, {"slime"}, {"slime", "toad"}, -20, TRUE, CustomTheme), 2>>,
    <<Params(12, "stealth", 7, {}, {}, -40, FALSE, NoTheme), 2>> }

FeedbackTapes == { [i \in 1..TapeLen |-> 0], [i \in 1..TapeLen |-> 55] }

\* Feedback on either side of the thresholds 7 and 8
FeedbackKinds ==
  { Feedback(e, d, c) : e \in {7, 8}, d \in {8, 9}, c \in BOOLEAN }

FeedbackGenerate ==
  /\ dungeon.status = "none"
  /\ gen.pc = "idle"
  /\ \E request \in FeedbackRequests, tape \in FeedbackTapes :
       GenerateDungeon(request[1], request[2], tape)
  /\ UNCHANGED <<bossVars, calls>>

FeedbackResume ==
  /\ \E tape \in FeedbackTapes : ResumeGenerateDungeon(tape)
  /\ UNCHANGED <<bossVars, calls>>

\* The dungeon is first found too hard, then its rooms are praised one after
\* the other: the enemy density is lowered while no room was praised; a room
\* is praised while the enemy density is the initial one or 0.1, the weight
\* of its type is at most MaxTypeWeight and the weight of every other type
\* is the initial one or above MaxTypeWeight.
InFeedbackScript(roomId, fb) ==
  /\ (fb.difficulty > 8 /\ ~fb.completed /\ FindRoom(roomId) # 0) =>
       neuralWeights.room_type = InitialNeuralWeights.room_type
  /\ (fb.enjoyment > 7 /\ fb.completed /\ FindRoom(roomId) # 0) =>
       LET t == IndexOf(RoomTypes, generationHistory[FindRoom(roomId)].type)
       IN /\ neuralWeights.enemy_density[1]
               \in {InitialNeuralWeights.enemy_density[1], 10}
          /\ neuralWeights.room_type[t] <= MaxTypeWeight
          /\ \A u \in DOMAIN RoomTypes \ {t} :
               \/ neuralWeights.room_type[u] = InitialNeuralWeights.room_type[u]
               \/ neuralWeights.room_type[u] > MaxTypeWeight

FeedbackLearn ==
  /\ \E roomId \in FeedbackIds, fb \in FeedbackKinds :
       InFeedbackScript(roomId, fb) /\ LearnFromFeedback(roomId, fb)
  /\ UNCHANGED <<bossVars, calls>>

NextFeedback == FeedbackGenerate \/ FeedbackResume \/ FeedbackLearn

SpecFeedback == Init /\ [][NextFeedback]_vars

\* ------------------------------------------------------------- long dungeon

\* Largest number of learnFromFeedback calls about the boss room
MaxPraise == 8

\* Requests of a balanced player who never died, for rooms of 2 cells a
\* side: a single room and eleven rooms
BossRequests ==
  { <<Params(5, "balanced", 0, {}, {}, -40, FALSE, NoTheme), 1>>,
    <<Params(5, "balanced", 0, {}, {}, -40, FALSE, NoTheme), 11>> }

\* generateDungeon is called while the history holds at most one room
BossGenerate ==
  /\ gen.pc = "idle"
  /\ Len(generationHistory) <= 1
  /\ \E request \in BossRequests, tape \in FeedbackTapes :
       GenerateDungeon(request[1], request[2], tape)
  /\ UNCHANGED <<bossVars, calls>>

BossResume ==
  /\ \E tape \in FeedbackTapes : ResumeGenerateDungeon(tape)
  /\ UNCHANGED <<bossVars, calls>>

\* The player enjoyed and completed the first room of the history
BossPraise ==
  /\ calls < MaxPraise
  /\ calls' = calls + 1
  /\ Len(generationHistory) >= 1
  /\ LearnFromFeedback(generationHistory[1].id, Feedback(9, 5, TRUE))
  /\ UNCHANGED bossVars

NextBoss == BossGenerate \/ BossResume \/ BossPraise

SpecBoss == Init /\ [][NextBoss]_vars

\* ------------------------------------------------------------- losing streak

\* Number of consecutive worst outcomes of a losing streak
MaxWorst == 40

\* newPhase values before a losing streak
WorstPhases == {-2, 1, 4}

\* The strategy missed: nobody hit, no damage, the player dodged
WorstOutcome == Outcome(0, FALSE, TRUE)

WorstInitialize ==
  /\ ~Known(TheBoss)
  /\ \E h \in MaxHealths : InitializeBoss(TheBoss, h)
  /\ UNCHANGED <<calls, neuralWeights, generationHistory, gen, dungeon, clock>>

\* The phase changes before the streak
WorstTransition ==
  /\ Known(TheBoss)
  /\ calls = 0
  /\ \E p \in WorstPhases : TransitionPhase(TheBoss, p)
  /\ UNCHANGED <<calls, neuralWeights, generationHistory, gen, dungeon, clock>>

\* close-gap succeeds before the streak
WorstRaise ==
  /\ Known(TheBoss)
  /\ calls = 0
  /\ LearnFromOutcome(TheBoss, "close-gap", Outcome(3000, TRUE, FALSE))
  /\ UNCHANGED <<calls, neuralWeights, generationHistory, gen, dungeon, clock>>

\* close-gap fails once more
WorstLearn ==
  /\ Known(TheBoss)
  /\ calls < MaxWorst
  /\ calls' = calls + 1
  /\ LearnFromOutcome(TheBoss, "close-gap", WorstOutcome)
  /\ UNCHANGED dungeonVars

NextWorst == WorstInitialize \/ WorstTransition \/ WorstRaise \/ WorstLearn

SpecWorst == Init /\ [][NextWorst]_vars

\* ------------------------------------------------------------- two dungeons

\* Largest number of generateDungeon calls of one generator
MaxDungeons == 2

\* Largest value Date.now() reaches, in milliseconds after construction
MaxClock == 1

\* Requests of one and of two rooms
TwiceRequests ==
  { <<Params(12, "stealth", 7, {}, {}, -40, FALSE, NoTheme), 1>>,
    <<Params(1, "defensive", 0, {"slime"}, {"slime", "toad"}, -20, TRUE, CustomTheme), 2>> }

\* generateDungeon is called again once the previous call has returned
TwiceGenerate ==
  /\ gen.pc = "idle"
  /\ calls < MaxDungeons
  /\ calls' = calls + 1
  /\ \E request \in TwiceRequests, tape \in FeedbackTapes :
       GenerateDungeon(request[1], request[2], tape)
  /\ UNCHANGED bossVars

TwiceResume ==
  /\ \E tape \in FeedbackTapes : ResumeGenerateDungeon(tape)
  /\ UNCHANGED <<bossVars, calls>>

\* A millisecond passes: Date.now() returns the next value
TwiceTick ==
  /\ clock < MaxClock
  /\ clock' = clock + 1
  /\ UNCHANGED <<bossVars, calls, neuralWeights, generationHistory, gen, dungeon>>

NextTwice == TwiceGenerate \/ TwiceResume \/ TwiceTick

SpecTwice == Init /\ [][NextTwice]_vars


\* ------------------------------------------------------------- properties

Weights(bossId) == bossStates[bossId].strategyWeights

\* C1: every value of every boss's strategyWeights map lies in [0.1, 3.0],
\* after any sequence of controller calls with any outcome and strategy id.
WeightsClamped ==
  \A b \in DOMAIN bossStates : \A id \in DOMAIN Weights(b) :
    Scale \div 10 <= Weights(b)[id] /\ Weights(b)[id] <= 3 * Scale

\* C1 case: an outcome whose update overshoots 3.0 has been learnt and the
\* weight sits on the upper clamp.
WeightsClampedWitness ==
  /\ lastCall.op = "learnFromOutcome"
  /\ Known(lastCall.bossId)
  /\ \E id \in DOMAIN Weights(lastCall.bossId) :
       Weights(lastCall.bossId)[id] = 3 * Scale

\* The trigger of each catalog strategy, written out on the profile
Eligible(behavior, id) ==
  CASE id = "close-gap" -> behavior.avgDistanceFromBoss > 200 * Scale
    [] id = "defensive-counter" ->
         behavior.avgDistanceFromBoss < 100 * Scale /\ behavior.attackFrequency > 2
    [] id = "aoe-spam" -> behavior.dodgeFrequency > 3
    [] id = "prediction-attack" -> 10 * behavior.predictability > 7 * Scale
    [] id = "burst-damage" -> behavior.healUsage > 3
    [] OTHER -> FALSE

SelectReturned ==
  lastCall.op = "selectStrategy" /\ Known(lastCall.bossId)

\* C2: selectStrategy never returns a strategy one of whose conditions the
\* current profile does not satisfy, whatever the weights; with
\* avgDistanceFromBoss = 250 it never returns Defensive Counter.
SelectedIsEligible ==
  SelectReturned /\ lastCall.value # "null" =>
    /\ Eligible(Behavior(lastCall.bossId), lastCall.value)
    /\ (Behavior(lastCall.bossId).avgDistanceFromBoss = 250 * Scale
          => lastCall.value # "defensive-counter")

\* C2 case: the player stands 250 away and has attacked more than twice, so
\* only the distance condition keeps Defensive Counter out, and a strategy
\* was returned.
SelectedIsEligibleWitness ==
  /\ SelectReturned
  /\ lastCall.value # "null"
  /\ Behavior(lastCall.bossId).avgDistanceFromBoss = 250 * Scale
  /\ Behavior(lastCall.bossId).attackFrequency > 2

CatalogIndex(id) == CHOOSE i \in DOMAIN strategies : strategies[i].id = id

EligibleIndexes(bossId) ==
  { i \in DOMAIN strategies : Eligible(Behavior(bossId), strategies[i].id) }

PriorityTimesWeight(bossId, i) ==
  strategies[i].priority * Weights(bossId)[strategies[i].id]

\* C3: for a known boss selectStrategy returns the eligible strategy of
\* largest priority x weight, the earliest in catalog order among equals, and
\* null exactly when no strategy is eligible.
SelectReturnsFirstMaximum ==
  SelectReturned =>
    LET b == lastCall.bossId
        E == EligibleIndexes(b)
    IN IF E = {} THEN lastCall.value = "null"
       ELSE /\ lastCall.value \in StrategyIds
            /\ LET sel == CatalogIndex(lastCall.value)
               IN /\ sel \in E
                  /\ \A i \in E : PriorityTimesWeight(b, i) <= PriorityTimesWeight(b, sel)
                  /\ \A i \in E : PriorityTimesWeight(b, i) = PriorityTimesWeight(b, sel)
                                    => sel <= i

\* C3 case: two eligible strategies of different priority share the largest
\* score because of a learnt weight, and the earlier one was returned.
SelectReturnsFirstMaximumWitness ==
  /\ SelectReturned
  /\ lastCall.value \in StrategyIds
  /\ \E i \in EligibleIndexes(lastCall.bossId) :
       /\ i > CatalogIndex(lastCall.value)
       /\ strategies[i].priority # strategies[CatalogIndex(lastCall.value)].priority
       /\ PriorityTimesWeight(lastCall.bossId, i)
            = PriorityTimesWeight(lastCall.bossId, CatalogIndex(lastCall.value))

\* C4: transitionPhase on a known boss leaves attackFrequency, dodgeFrequency
\* and healUsage at 0 and every strategyWeights entry as it was.
TransitionKeepsWeights ==
  [][ (lastCall'.op = "transitionPhase" /\ Known(lastCall'.bossId)) =>
        LET b == lastCall'.bossId IN
        /\ bossStates'[b].playerBehavior.attackFrequency = 0
        /\ bossStates'[b].playerBehavior.dodgeFrequency = 0
        /\ bossStates'[b].playerBehavior.healUsage = 0
        /\ bossStates'[b].strategyWeights = bossStates[b].strategyWeights ]_vars

\* C4 case: a transition happened after an attack was counted and after a
\* weight was learnt away from 1.0.
TransitionKeepsWeightsWitness ==
  /\ lastCall.op = "transitionPhase"
  /\ Known(lastCall.bossId)
  /\ \E id \in StrategyIds : Weights(lastCall.bossId)[id] # Scale
  /\ Len(HistoryOf(lastCall.bossId)) > 0
  /\ HistoryOf(lastCall.bossId)[Len(HistoryOf(lastCall.bossId))].attackFrequency > 0
  /\ Behavior(lastCall.bossId).attackFrequency = 0

InUnitInterval(x) == 0 <= x /\ x <= Scale

\* C5: the predictability of every boss's profile, and of every sample kept
\* of it, lies in [0, 1].
PredictabilityInUnitInterval ==
  /\ \A b \in DOMAIN bossStates : InUnitInterval(Behavior(b).predictability)
  /\ \A b \in DOMAIN behaviorHistory : \A i \in DOMAIN behaviorHistory[b] :
       InUnitInterval(behaviorHistory[b][i].predictability)

\* C5 case: over the last 20 samples the two deviations add up to more than
\* 10, and the predictability computed from them is 0.
PredictabilityInUnitIntervalWitness ==
  /\ Known(TheBoss)
  /\ Len(HistoryOf(TheBoss)) > 20
  /\ Behavior(TheBoss).predictability = 0

\* What a call on an unknown boss may return according to C6: nothing, null
\* or an empty list
NullOrEmpty(r) ==
  \/ r.value \in {"undefined", "null"}
  \/ (r.value = "actions" /\ r.actions = << >>)

UnknownBossCall ==
  lastCall'.op # "initializeBoss" /\ ~Known(lastCall'.bossId)

\* C6 as stated: every operation on a bossId that was never initialized
\* returns null or an empty result and changes and creates no state.
UnknownBossReturnsNull ==
  [][ UnknownBossCall =>
        /\ NullOrEmpty(lastCall')
        /\ bossStates' = bossStates
        /\ behaviorHistory' = behaviorHistory ]_vars

\* C6 amended: as C6, except that getDifficultyMultiplier returns the neutral
\* multiplier 1.0 for an unknown boss.
UnknownBossIsNoOp ==
  [][ UnknownBossCall =>
        /\ IF lastCall'.op = "getDifficultyMultiplier"
           THEN lastCall'.value = "number" /\ lastCall'.number = Scale
           ELSE NullOrEmpty(lastCall')
        /\ bossStates' = bossStates
        /\ behaviorHistory' = behaviorHistory ]_vars

\* C6 case: an action was recorded for an id that was never initialized
\* while another boss holds state and history.
UnknownBossIsNoOpWitness ==
  /\ lastCall.op = "updatePlayerBehavior"
  /\ ~Known(lastCall.bossId)
  /\ \E b \in DOMAIN bossStates : Len(HistoryOf(b)) > 0

\* C7: a call made for one bossId changes the state, the weights, the
\* adaptations, the phase, the learning rate and the history of no other
\* bossId.
EncountersIsolated ==
  [][ \A b \in BossIds : b # lastCall'.bossId =>
        /\ (b \in DOMAIN bossStates') = (b \in DOMAIN bossStates)
        /\ (b \in DOMAIN bossStates => bossStates'[b] = bossStates[b])
        /\ (b \in DOMAIN behaviorHistory') = (b \in DOMAIN behaviorHistory)
        /\ (b \in DOMAIN behaviorHistory => behaviorHistory'[b] = behaviorHistory[b])
    ]_vars

\* C7 case: a boss was initialized while another boss holds a sample and a
\* learnt weight.
EncountersIsolatedWitness ==
  /\ lastCall.op = "initializeBoss"
  /\ \E b \in DOMAIN bossStates :
       /\ b # lastCall.bossId
       /\ Len(HistoryOf(b)) > 0
       /\ \E id \in StrategyIds : Weights(b)[id] # Scale

\* Every room the generator holds: returned, kept in the history, or built
\* by the call in progress
AllRooms ==
  { dungeon.rooms[k] : k \in DOMAIN dungeon.rooms }
  \cup { generationHistory[k] : k \in DOMAIN generationHistory }
  \cup (IF gen.pc = "await"
        THEN { gen.rooms[k] : k \in DOMAIN gen.rooms } \cup { gen.pending }
        ELSE {})

DoorCount(row) == Cardinality({ x \in DOMAIN row : row[x] = 2 })

\* C8: every generated room layout has exactly one door cell in its top
\* border row and exactly one in its bottom border row.
OneDoorTopAndBottom ==
  \A room \in AllRooms :
    /\ Len(room.layout) >= 1
    /\ DoorCount(room.layout[1]) = 1
    /\ DoorCount(room.layout[Len(room.layout)]) = 1

FloorCount(layout) == Len(GetFloorTiles(layout))

\* C8 case: a dungeon was returned with a boss room and another room, both at
\* least 14 cells a side and both holding floor.
OneDoorTopAndBottomWitness ==
  /\ dungeon.status = "resolved"
  /\ \E k \in DOMAIN dungeon.rooms :
       /\ dungeon.rooms[k].type = "boss"
       /\ Len(dungeon.rooms[k].layout) >= 14
       /\ FloorCount(dungeon.rooms[k].layout) > 0
  /\ \E k \in DOMAIN dungeon.rooms :
       /\ dungeon.rooms[k].type # "boss"
       /\ Len(dungeon.rooms[k].layout) >= 14
       /\ FloorCount(dungeon.rooms[k].layout) > 0

OnFloor(room, position) == Cell(room.layout, position.x, position.y) = 1

\* C9: in every generated room every enemy, item and hazard stands on a floor
\* cell of the room's layout.
EntitiesOnFloor ==
  \A room \in AllRooms :
    /\ \A k \in DOMAIN room.enemies : OnFloor(room, room.enemies[k].position)
    /\ \A k \in DOMAIN room.items : OnFloor(room, room.items[k].position)
    /\ \A k \in DOMAIN room.hazards : OnFloor(room, room.hazards[k].position)

\* C9 case: a returned room holds several enemies, an item and a hazard.
EntitiesOnFloorWitness ==
  /\ dungeon.status = "resolved"
  /\ \E k \in DOMAIN dungeon.rooms :
       /\ Len(dungeon.rooms[k].enemies) > 1
       /\ Len(dungeon.rooms[k].items) > 0
       /\ Len(dungeon.rooms[k].hazards) > 0

\* C10: generateDungeon called with roomCount <= 0 resolves with an empty
\* room list.
NoRoomsForNoCount ==
  dungeon.status # "none" /\ dungeon.roomCount <= 0 =>
    dungeon.status = "resolved" /\ dungeon.rooms = << >>

\* C10 case: the call was made with roomCount 0 and a desiredDifficulty for
\* which generating a room throws.
NoRoomsForNoCountWitness ==
  /\ dungeon.status = "resolved"
  /\ dungeon.roomCount = 0
  /\ LayoutSize(dungeon.params.desiredDifficulty) <= 0

\* C11: generateDungeon never throws, whatever playerLevel, desiredDifficulty,
\* deathCount and roomCount are and with or without a theme: the promise of
\* the call is never rejected.
GenerateDungeonNeverThrows == dungeon.status # "rejected"

\* C12: the aiConfidence generateDungeon returns is a number within [0, 1],
\* for every params and every roomCount.
ConfidenceInUnitInterval ==
  dungeon.status = "resolved" =>
    /\ ~dungeon.aiConfidence.nan
    /\ InUnitInterval(dungeon.aiConfidence.v)

\* C14: for a boss whose profile holds the values initializeBoss gave it,
\* selectStrategy returns null.
FreshBossSelectsNothing ==
  SelectReturned /\ Behavior(lastCall.bossId) = InitialBehavior =>
    lastCall.value = "null"

\* C14 case: selectStrategy was called on a boss that was initialized and has
\* recorded no action.
FreshBossSelectsNothingWitness ==
  /\ SelectReturned
  /\ Behavior(lastCall.bossId) = InitialBehavior
  /\ HistoryOf(lastCall.bossId) = << >>
  /\ lastCall.value = "null"

EqualWeights(bossId) ==
  \A i, j \in StrategyIds : Weights(bossId)[i] = Weights(bossId)[j]

\* C15: with all strategy weights equal, selectStrategy returns Prediction
\* Attack whenever predictability > 0.7, whichever other strategies are
\* eligible.
PredictableSelectsPredictionAttack ==
  (/\ SelectReturned
   /\ EqualWeights(lastCall.bossId)
   /\ 10 * Behavior(lastCall.bossId).predictability > 7 * Scale)
    => lastCall.value = "prediction-attack"

\* C15 case: with equal weights and a predictability strictly between 0.7
\* and 1, Defensive Counter (priority 9) was eligible too and Prediction
\* Attack was returned.
PredictableSelectsPredictionAttackWitness ==
  /\ SelectReturned
  /\ EqualWeights(lastCall.bossId)
  /\ 10 * Behavior(lastCall.bossId).predictability > 7 * Scale
  /\ Behavior(lastCall.bossId).predictability < Scale
  /\ Eligible(Behavior(lastCall.bossId), "defensive-counter")
  /\ lastCall.value = "prediction-attack"

SameProfileAndWeights(a, b) ==
  Behavior(a) = Behavior(b) /\ Weights(a) = Weights(b)

\* C13: selectStrategy is a function of the profile and the strategyWeights
\* values: whatever it returned for one boss is what it returns for every
\* boss state holding an equal profile and the same weights.
SelectDependsOnProfileAndWeights ==
  SelectReturned =>
    \A b \in DOMAIN bossStates :
      SameProfileAndWeights(lastCall.bossId, b) =>
        SelectStrategyResult(b) = lastCall.value

\* C13 case: a strategy was returned for a boss with a learnt weight and two
\* eligible strategies, and another boss holds the same weights and an equal
\* profile but another phase, learning rate and adaptation log.
SelectDependsOnProfileAndWeightsWitness ==
  /\ SelectReturned
  /\ lastCall.value # "null"
  /\ Cardinality(EligibleIndexes(lastCall.bossId)) > 1
  /\ ~EqualWeights(lastCall.bossId)
  /\ \E b \in DOMAIN bossStates :
       /\ b # lastCall.bossId
       /\ SameProfileAndWeights(lastCall.bossId, b)
       /\ bossStates[b].adaptations # bossStates[lastCall.bossId].adaptations
       /\ bossStates[b].currentPhase # bossStates[lastCall.bossId].currentPhase
       /\ bossStates[b].learningRate # bossStates[lastCall.bossId].learningRate

\* C16: with dodgeFrequency = 5, every other metric at its initial value and
\* all strategy weights 1.0, selectStrategy returns AOE Spam.
FiveDodgesSelectAoeSpam ==
  (/\ SelectReturned
   /\ Behavior(lastCall.bossId) = [InitialBehavior EXCEPT !.dodgeFrequency = 5]
   /\ \A id \in StrategyIds : Weights(lastCall.bossId)[id] = Scale)
    => lastCall.value = "aoe-spam"

\* C16 case: selectStrategy was called on a boss that recorded exactly five
\* dodges since it was initialized and learnt nothing.
FiveDodgesSelectAoeSpamWitness ==
  /\ SelectReturned
  /\ Len(HistoryOf(lastCall.bossId)) = 5
  /\ Behavior(lastCall.bossId) = [InitialBehavior EXCEPT !.dodgeFrequency = 5]
  /\ \A id \in StrategyIds : Weights(lastCall.bossId)[id] = Scale
  /\ lastCall.value = "aoe-spam"

\* C17: for every roomCount >= 1 the dungeon generateDungeon returns holds
\* roomCount rooms and the last one has type boss, also when deathCount > 5.
LastRoomIsBoss ==
  dungeon.status = "resolved" /\ dungeon.roomCount >= 1 =>
    /\ Len(dungeon.rooms) = dungeon.roomCount
    /\ dungeon.rooms[dungeon.roomCount].type = "boss"

\* C17 case: a dungeon of two rooms was returned for a player with
\* deathCount > 5; the safe room rule chose the first room and the last room
\* is the boss room.
LastRoomIsBossWitness ==
  /\ dungeon.status = "resolved"
  /\ dungeon.roomCount = 2
  /\ dungeon.params.previousPerformance.deathCount > 5
  /\ dungeon.rooms[1].type = "safe"
  /\ dungeon.rooms[2].type = "boss"

Within3(difficulty, level) == level - difficulty < 3 /\ difficulty - level < 3

\* The id of the theme of a request without a theme: crypt (3), volcano (7),
\* void (9) in this order
ThemeIdFor(level) ==
  IF Within3(3, level) THEN "crypt"
  ELSE IF Within3(7, level) THEN "volcano"
  ELSE IF Within3(9, level) THEN "void"
  ELSE "crypt"

OutcomeValue(outcome) ==
  (IF outcome.playerHit THEN 500 ELSE 0)
  + (IF outcome.damageDealt > 0 THEN outcome.damageDealt * 10 ELSE 0)
  + (IF outcome.playerDodged THEN 0 ELSE 300)

\* clamp(old + learningRate x (effectiveness - old), 0.1, 3.0)
LearntWeight(old, learningRate, effectiveness) ==
  LET moved == old + RoundDiv(learningRate * (effectiveness - old), Scale)
  IN IF moved < 100 THEN 100 ELSE IF moved > 3000 THEN 3000 ELSE moved

OldWeight(id) ==
  IF id \in DOMAIN Weights(TheBoss) THEN Weights(TheBoss)[id] ELSE Scale

\* The weight of id after a learnFromOutcome step is the clamped update of
\* the weight before it
LearnSetsWeight(id, outcome) ==
  bossStates'[TheBoss].strategyWeights[id]
    = LearntWeight(OldWeight(id), bossStates[TheBoss].learningRate,
                   OutcomeValue(outcome))

\* The weight of id is no farther from the effectiveness after the step
LearnMovesToward(id, outcome) ==
  Abs(bossStates'[TheBoss].strategyWeights[id] - OutcomeValue(outcome))
    <= Abs(OldWeight(id) - OutcomeValue(outcome))

\* C19 as stated: learnFromOutcome on a known boss sets the weight of
\* strategyId to clamp(old + learningRate x (effectiveness - old), 0.1, 3.0)
\* and the new weight is never farther from the effectiveness than the old.
LearnNeverMovesAway ==
  [][ \A id \in DeepLearnIds, o \in Outcomes :
        Known(TheBoss) /\ LearnFromOutcome(TheBoss, id, o) =>
          LearnSetsWeight(id, o) /\ LearnMovesToward(id, o) ]_vars

\* While learningRate is not negative the step behaves as stated: the weight
\* is set to the clamped update and is never farther from the effectiveness
\* than before.
LearnMovesTowardUnlessNegativeRate ==
  [][ \A id \in DeepLearnIds, o \in Outcomes :
        Known(TheBoss) /\ LearnFromOutcome(TheBoss, id, o) =>
          /\ LearnSetsWeight(id, o)
          /\ bossStates[TheBoss].learningRate >= 0 => LearnMovesToward(id, o) ]_vars

\* An outcome was learnt at a positive learning rate and left a weight
\* strictly between the clamps and away from 1.0.
LearnMovesTowardUnlessNegativeRateWitness ==
  /\ lastCall.op = "learnFromOutcome"
  /\ Known(TheBoss)
  /\ bossStates[TheBoss].learningRate > 0
  /\ \E id \in DeepLearnIds :
       /\ id \in DOMAIN Weights(TheBoss)
       /\ Weights(TheBoss)[id] \notin {100, Scale, 3000}

\* C20: transitionPhase(bossId, p) on a known boss sets currentPhase = p,
\* aggressionLevel = min(10, 5 + 2p) and learningRate = min(0.3, 0.1 + 0.05p);
\* a transition to a phase not below the current one never lowers the
\* learning rate, which never exceeds 0.3.
TransitionSetsRates ==
  [][ \A p \in DeepPhases :
        Known(TheBoss) /\ TransitionPhase(TheBoss, p) =>
          /\ bossStates'[TheBoss].currentPhase = p
          /\ bossStates'[TheBoss].aggressionLevel
               = (IF 5 + 2 * p > 10 THEN 10 ELSE 5 + 2 * p)
          /\ bossStates'[TheBoss].learningRate
               = (IF 100 + 50 * p > 300 THEN 300 ELSE 100 + 50 * p)
          /\ bossStates'[TheBoss].learningRate <= 300
          /\ p >= bossStates[TheBoss].currentPhase =>
               bossStates'[TheBoss].learningRate >= bossStates[TheBoss].learningRate
    ]_vars

\* C20 case: the boss went to phase 6, past both caps, after having learnt
\* at another rate.
TransitionSetsRatesWitness ==
  /\ lastCall.op = "transitionPhase"
  /\ Known(TheBoss)
  /\ bossStates[TheBoss].currentPhase = 6
  /\ bossStates[TheBoss].aggressionLevel = 10
  /\ bossStates[TheBoss].learningRate = 300
  /\ calls > 0

\* ------------------------------------------------------------- difficulty

\* C21: for a known boss getDifficultyMultiplier returns
\* 1.0 + min(0.5, 0.05 x number of adaptation entries) + 0.2 x (currentPhase - 1)
MultiplierIsFormula ==
  (lastCall.op = "getDifficultyMultiplier" /\ Known(lastCall.bossId)) =>
    LET state == bossStates[lastCall.bossId]
        entries == Len(state.adaptations)
        bonus == IF 50 * entries < 500 THEN 50 * entries ELSE 500
    IN lastCall.number = 1000 + bonus + 200 * (state.currentPhase - 1)

\* The multiplier 1.9 was returned for a boss in phase 3 whose log holds
\* more than ten entries
MultiplierIsFormulaWitness ==
  /\ lastCall.op = "getDifficultyMultiplier"
  /\ Known(lastCall.bossId)
  /\ Len(bossStates[lastCall.bossId].adaptations) > 10
  /\ bossStates[lastCall.bossId].currentPhase = 3
  /\ lastCall.number = 1900

\* ------------------------------------------------------------- adaptation entries

Log(bossId) == bossStates[bossId].adaptations

Triggers(log) == { log[i].trigger : i \in DOMAIN log }

\* What one executeBossAction call with strategy s does to the log of TheBoss
ExecuteLogs(s) ==
  LET old == Log(TheBoss)
      new == bossStates'[TheBoss].adaptations
  IN /\ lastCall'.actions = s.actions
     /\ IF s.name \in Triggers(old)
        THEN /\ Len(new) = Len(old)
             /\ \A i \in DOMAIN old :
                  /\ new[i].trigger = old[i].trigger
                  /\ new[i].timesUsed =
                       old[i].timesUsed + (IF old[i].trigger = s.name THEN 1 ELSE 0)
        ELSE /\ Len(new) = Len(old) + 1
             /\ new[Len(new)].trigger = s.name
             /\ new[Len(new)].timesUsed = 1
             /\ \A i \in DOMAIN old :
                  new[i].trigger = old[i].trigger /\ new[i].timesUsed = old[i].timesUsed

\* No call of the encounter removes an entry or changes its name
EntriesKept ==
  (Known(TheBoss) /\ TheBoss \in DOMAIN bossStates') =>
    /\ Len(bossStates'[TheBoss].adaptations) >= Len(Log(TheBoss))
    /\ \A i \in DOMAIN Log(TheBoss) :
         bossStates'[TheBoss].adaptations[i].trigger = Log(TheBoss)[i].trigger

\* One entry per strategy name, and the timesUsed of the entries add up to
\* the number of executeBossAction calls
OneEntryPerName ==
  Known(TheBoss) =>
    /\ \A i, j \in DOMAIN Log(TheBoss) :
         Log(TheBoss)[i].trigger = Log(TheBoss)[j].trigger => i = j
    /\ SumSeq([i \in DOMAIN Log(TheBoss) |-> Log(TheBoss)[i].timesUsed]) = calls

\* C22: executeAction on a known boss returns the strategy's action list; an
\* existing entry of that name has its timesUsed grow by 1 and no entry is
\* added, otherwise one entry with timesUsed 1 is appended; entries are never
\* removed, the log holds at most one entry per name and the timesUsed add up
\* to the number of executeAction calls
ExecuteKeepsLog ==
  /\ []OneEntryPerName
  /\ [][ /\ EntriesKept
         /\ \A i \in DOMAIN LogStrategies :
              (Known(TheBoss) /\ ExecuteBossAction(TheBoss, LogStrategies[i]))
                => ExecuteLogs(LogStrategies[i]) ]_vars

\* Close the Gap was executed three times and two other strategies once
ExecuteKeepsLogWitness ==
  /\ Known(TheBoss)
  /\ lastCall.op = "executeBossAction"
  /\ Len(Log(TheBoss)) = 3
  /\ Log(TheBoss)[1].trigger = "Close the Gap"
  /\ Log(TheBoss)[1].timesUsed = 3
  /\ calls = 5

\* ------------------------------------------------------------- feedback weights

HistoryIds == { generationHistory[k].id : k \in DOMAIN generationHistory }

\* The type of the room the history holds under roomId, as an index of the
\* room_type weights
TypeOfRoom(roomId) ==
  LET k == CHOOSE k \in DOMAIN generationHistory :
             /\ generationHistory[k].id = roomId
             /\ \A j \in 1..(k - 1) : generationHistory[j].id # roomId
  IN CHOOSE t \in DOMAIN RoomTypes : RoomTypes[t] = generationHistory[k].type

FeedbackMovesWeights(roomId, fb) ==
  IF roomId \notin HistoryIds THEN neuralWeights' = neuralWeights
  ELSE LET t == TypeOfRoom(roomId)
           density == neuralWeights.enemy_density[1]
       IN /\ (neuralWeights'.room_type[t] = neuralWeights.room_type[t] + 1)
               <=> (fb.enjoyment > 7 /\ fb.completed)
          /\ (~(fb.enjoyment > 7 /\ fb.completed)) =>
               neuralWeights'.room_type = neuralWeights.room_type
          /\ neuralWeights'.enemy_density[1] =
               IF fb.difficulty > 8 /\ ~fb.completed
               THEN (IF density - 1 < 10 THEN 10 ELSE density - 1)
               ELSE density

\* C23: learnFromFeedback for a room of the history adds 0.01 to the weight of
\* the room's type if and only if enjoyment > 7 and completed, lowers the
\* enemy-density weight by 0.01, not below 0.1, if and only if difficulty > 8
\* and not completed, and changes no weight for an id that is not in the history
FeedbackNudgesWeights ==
  [][ \A roomId \in FeedbackIds, fb \in FeedbackKinds :
        LearnFromFeedback(roomId, fb) => FeedbackMovesWeights(roomId, fb) ]_vars

\* A trap room was praised, the enemy density is at its floor, and both
\* weights have moved
FeedbackNudgesWeightsWitness ==
  /\ \E k \in DOMAIN generationHistory : generationHistory[k].type = "trap"
  /\ neuralWeights.room_type[6] > InitialNeuralWeights.room_type[6]
  /\ neuralWeights.enemy_density[1] = 10

\* C29: every learned weight of the generator stays within fixed bounds after
\* any sequence of learnFromFeedback calls: the enemy-density weight is never
\* below 0.1 and no room-type weight grows past 1.0, the range of the initial
\* weights
GeneratorWeightsBounded ==
  /\ neuralWeights.enemy_density[1] >= 10
  /\ \A t \in DOMAIN neuralWeights.room_type : neuralWeights.room_type[t] <= 100

\* ------------------------------------------------------------- predictability samples

\* The standard deviation of 20 integer samples in thousandths, rounded
\* down: with d[i] = 20 * v[i] - sum(v), the variance is sum(d[i]^2) / 8000
Spread(values) ==
  LET total == SumSeq(values)
      squares == SumSeq([i \in 1..20 |-> (20 * values[i] - total) * (20 * values[i] - total)])
  IN ISqrt(125 * squares)

\* 1 - min(1, (stddev of attackFrequency + stddev of dodgeFrequency) / 10)
\* over 20 samples, in thousandths
PredictabilityOf(samples) ==
  LET spread == Spread([i \in 1..20 |-> samples[i].attackFrequency])
                + Spread([i \in 1..20 |-> samples[i].dodgeFrequency])
  IN 1000 - (IF spread \div 10 > 1000 THEN 1000 ELSE spread \div 10)

LastTwenty(samples) == [i \in 1..20 |-> samples[Len(samples) - 20 + i]]

\* C24 as stated: the predictability is 0.5 while fewer than 20 samples have
\* been recorded and, as soon as 20 or more have been recorded, the value
\* computed from the last 20 samples
PredictabilityOfLastSamples ==
  Known(TheBoss) =>
    Behavior(TheBoss).predictability =
      IF Len(HistoryOf(TheBoss)) < 20 THEN 500
      ELSE PredictabilityOf(LastTwenty(HistoryOf(TheBoss)))

\* C24 amended: initializeBoss sets the predictability to 0.5; an
\* updatePlayerBehavior call on a known boss sets it to 0.5 when fewer than 20
\* samples were recorded before the call and otherwise to the value computed
\* from the 20 samples recorded before the call, the sample of the call itself
\* not counted; no other call changes it
PredictabilityOfEarlierSamples ==
  [][ /\ lastCall'.op = "initializeBoss" =>
           bossStates'[TheBoss].playerBehavior.predictability = 500
      /\ (Known(TheBoss) /\ lastCall'.op = "updatePlayerBehavior") =>
           bossStates'[TheBoss].playerBehavior.predictability =
             IF Len(HistoryOf(TheBoss)) < 20 THEN 500
             ELSE PredictabilityOf(LastTwenty(HistoryOf(TheBoss)))
      /\ (Known(TheBoss)
          /\ lastCall'.op \notin {"initializeBoss", "updatePlayerBehavior"}) =>
           bossStates'[TheBoss].playerBehavior.predictability
             = Behavior(TheBoss).predictability ]_vars

\* Twenty samples are recorded, their attack counts differ, and the
\* predictability is still 0.5; one sample later it has moved
PredictabilityOfEarlierSamplesWitness ==
  /\ Known(TheBoss)
  /\ Len(HistoryOf(TheBoss)) = 21
  /\ HistoryOf(TheBoss)[20].predictability = 500
  /\ HistoryOf(TheBoss)[20].attackFrequency > HistoryOf(TheBoss)[1].attackFrequency
  /\ Behavior(TheBoss).predictability < 500

\* ------------------------------------------------------------- adaptation effectiveness

EntryOf(log, name) == CHOOSE i \in DOMAIN log : log[i].trigger = name

\* The effectiveness of an outcome, in thousandths
Effect(o) ==
  (IF o.playerHit THEN 500 ELSE 0)
  + (IF o.damageDealt > 0 THEN 10 * o.damageDealt ELSE 0)
  + (IF o.playerDodged THEN 0 ELSE 300)

\* C25: after executeAction(bossId, s), learnFromOutcome(bossId, s.id, outcome)
\* updates the effectiveness of the log entry of s to the running average
\* (old x (timesUsed - 1) + effectiveness of the outcome) / timesUsed, which is
\* positive after an outcome of positive effectiveness
LearnAveragesEffectiveness ==
  [][ \A i \in DOMAIN LogStrategies, o \in LogOutcomes :
        ( /\ Known(TheBoss)
          /\ LogStrategies[i].name \in Triggers(Log(TheBoss))
          /\ LearnFromOutcome(TheBoss, LogStrategies[i].id, o) ) =>
          LET k == EntryOf(Log(TheBoss), LogStrategies[i].name)
              old == Log(TheBoss)[k]
              new == bossStates'[TheBoss].adaptations[k]
          IN /\ new.effectiveness =
                  RoundDiv(old.effectiveness * (old.timesUsed - 1) + Effect(o),
                           old.timesUsed)
             /\ Effect(o) > 0 => new.effectiveness > 0 ]_vars

\* ------------------------------------------------------------- repeated encounter

\* C26: after initialize is called again for a bossId the encounter is fresh:
\* the predictability is 0.5 until 20 actions, and the movement pattern the
\* initial one until 10 actions, have been recorded since that call
SecondEncounterIsFresh ==
  Known(TheBoss) =>
    /\ calls < 20 => Behavior(TheBoss).predictability = 500
    /\ calls < 10 => Behavior(TheBoss).movementPattern = "balanced"

\* C27: the movementPattern of every profile is one of circle, backpedal,
\* aggressive and erratic, at initialization and after every updateBehavior
MovementPatternInEnum ==
  \A b \in DOMAIN bossStates :
    Behavior(b).movementPattern \in {"circle", "backpedal", "aggressive", "erratic"}

\* ------------------------------------------------------------- phase

\* C28: the currentPhase of every encounter is an integer of at least 1,
\* whatever transitionPhase calls have been made
PhaseAtLeastOne ==
  \A b \in DOMAIN bossStates : bossStates[b].currentPhase >= 1

\* ------------------------------------------------------------- enemy counts

\* The params of the generateDungeon call the rooms come from
RequestParams == IF gen.pc = "await" THEN gen.params ELSE dungeon.params

\* floor(2 + desiredDifficulty), desiredDifficulty counting tenths
WantedEnemies(room) ==
  IF room.type = "boss" THEN 1 ELSE (20 + RequestParams.desiredDifficulty) \div 10

FloorCells(room) ==
  Cardinality(UNION { { <<y, x>> : x \in { x \in DOMAIN room.layout[y] :
                                              room.layout[y][x] = 1 } } :
                      y \in DOMAIN room.layout })

\* C30 as stated: a room holds no enemy when it is safe or a treasure room,
\* exactly 1 when it is a boss room and exactly floor(2 + desiredDifficulty)
\* otherwise
EnemyCountExact ==
  \A room \in AllRooms :
    Len(room.enemies) =
      IF room.type \in {"safe", "treasure"} THEN 0 ELSE WantedEnemies(room)

\* C30 amended: a safe or treasure room holds no enemy; any other room holds
\* as many enemies as wanted (1 for a boss room, floor(2 + desiredDifficulty)
\* otherwise) but no more than it has floor tiles, and none when the wanted
\* number is below 1
EnemyCountWithinFloor ==
  \A room \in AllRooms :
    Len(room.enemies) =
      IF room.type \in {"safe", "treasure"} THEN 0
      ELSE IF WantedEnemies(room) < 0 THEN 0
      ELSE IF WantedEnemies(room) > FloorCells(room) THEN FloorCells(room)
      ELSE WantedEnemies(room)

\* A dungeon was returned with a boss room holding one enemy and a combat
\* room holding four
EnemyCountWithinFloorWitness ==
  /\ dungeon.status = "resolved"
  /\ \E k \in DOMAIN dungeon.rooms :
       dungeon.rooms[k].type = "boss" /\ Len(dungeon.rooms[k].enemies) = 1
  /\ \E k \in DOMAIN dungeon.rooms :
       dungeon.rooms[k].type = "combat" /\ Len(dungeon.rooms[k].enemies) = 4

\* ------------------------------------------------------------- enemy types

\* The theme of the generateDungeon call the rooms come from
RequestTheme == IF gen.pc = "await" THEN gen.theme ELSE dungeon.theme

ThemeEnemies == { RequestTheme.enemyTypes[k] : k \in DOMAIN RequestTheme.enemyTypes }

AvoidedEnemies == RequestParams.previousPerformance.avoidedEnemies

\* C31: every placed enemy has a type of the theme's enemy set, and none has
\* a type of the avoided list unless every enemy type of the theme is on that
\* list, also when a type is on both the preferred and the avoided list
EnemyTypesRespectAvoided ==
  \A room \in AllRooms : \A k \in DOMAIN room.enemies :
    /\ room.enemies[k].type \in ThemeEnemies
    /\ room.enemies[k].type \in AvoidedEnemies => ThemeEnemies \subseteq AvoidedEnemies

\* An enemy was placed for a player whose preferred enemy is an avoided one
\* while the theme has another enemy type
EnemyTypesRespectAvoidedWitness ==
  /\ dungeon.status = "resolved"
  /\ AvoidedEnemies \cap RequestParams.previousPerformance.preferredEnemies # {}
  /\ ~(ThemeEnemies \subseteq AvoidedEnemies)
  /\ \E k \in DOMAIN dungeon.rooms : Len(dungeon.rooms[k].enemies) > 0

\* ------------------------------------------------------------- entity positions

Distinct(entities) ==
  \A i, j \in DOMAIN entities :
    entities[i].position = entities[j].position => i = j

Positions(entities) == { entities[k].position : k \in DOMAIN entities }

\* C32 as stated: the positions of all enemies, items and hazards of a room
\* are pairwise distinct, so no floor tile holds two entities
NoTileHoldsTwoEntities ==
  \A room \in AllRooms :
    /\ Distinct(room.enemies) /\ Distinct(room.items) /\ Distinct(room.hazards)
    /\ Positions(room.enemies) \cap Positions(room.items) = {}
    /\ Positions(room.enemies) \cap Positions(room.hazards) = {}
    /\ Positions(room.items) \cap Positions(room.hazards) = {}

\* C32 amended: within one room the positions of the enemies are pairwise
\* distinct, and so are the positions of the items and those of the hazards;
\* entities of different kinds may share a tile
NoTileHoldsTwoOfAKind ==
  \A room \in AllRooms :
    Distinct(room.enemies) /\ Distinct(room.items) /\ Distinct(room.hazards)

\* A room holds four enemies on four tiles and an item on the tile of one of
\* them, and a room holds three items on three tiles
NoTileHoldsTwoOfAKindWitness ==
  /\ \E room \in AllRooms :
       /\ Cardinality(Positions(room.enemies)) = 4
       /\ Positions(room.enemies) \cap Positions(room.items) # {}
  /\ \E room \in AllRooms : Cardinality(Positions(room.items)) = 3

\* ------------------------------------------------------------- history capacity

\* What one updatePlayerBehavior call does to the history of TheBoss: the
\* profile it leaves is appended, after the oldest sample was dropped from a
\* history of 100
HistoryShifts ==
  LET old == HistoryOf(TheBoss)
      new == behaviorHistory'[TheBoss]
      sample == bossStates'[TheBoss].playerBehavior
  IN IF Len(old) < 100
     THEN /\ Len(new) = Len(old) + 1
          /\ \A i \in 1..Len(old) : new[i] = old[i]
          /\ new[Len(new)] = sample
     ELSE /\ Len(new) = 100
          /\ \A i \in 1..99 : new[i] = old[i + 1]
          /\ new[100] = sample

\* C33: the history kept for a boss never holds more than 100 samples; once
\* it is full each updateBehavior call drops the oldest sample and appends the
\* newest, the order of arrival being kept
HistoryHoldsLast100 ==
  /\ [](\A b \in DOMAIN behaviorHistory : Len(behaviorHistory[b]) <= 100)
  /\ [][ (Known(TheBoss) /\ lastCall'.op = "updatePlayerBehavior") =>
           HistoryShifts ]_vars

\* 103 attacks were recorded: the history holds the samples of the 4th to the
\* 103rd
HistoryHoldsLast100Witness ==
  /\ Known(TheBoss)
  /\ Len(HistoryOf(TheBoss)) = 100
  /\ HistoryOf(TheBoss)[1].attackFrequency = 4
  /\ HistoryOf(TheBoss)[100].attackFrequency = 103

\* ------------------------------------------------------------- generation frame

\* The theme generateDungeon works with for params
ThemeFor(params) ==
  IF params.hasTheme THEN {params.theme}
  ELSE { themes[k] : k \in DOMAIN themes }

\* A step of generateDungeon keeps the params and the theme it was called
\* with
KeepsRequest ==
  /\ (gen.pc = "await" /\ gen'.pc = "await") =>
       (gen'.params = gen.params /\ gen'.theme = gen.theme)
  /\ (gen.pc = "await" /\ gen'.pc = "idle") =>
       (dungeon'.params = gen.params /\ dungeon'.theme = gen.theme)
  /\ gen'.pc = "await" => gen'.theme \in ThemeFor(gen'.params)
  /\ (gen'.pc = "idle" /\ dungeon'.status # "none") =>
       dungeon'.theme \in ThemeFor(dungeon'.params)

\* C34: generateDungeon modifies neither the params, nor the theme, nor the
\* weight vectors; all it changes is the generation history, to which the
\* rooms of the call are appended when it returns
GenerateDungeonOnlyAppends ==
  [][ (gen' # gen \/ dungeon' # dungeon) =>
        /\ neuralWeights' = neuralWeights
        /\ KeepsRequest
        /\ IF gen'.pc = "idle" /\ dungeon'.status = "resolved"
           THEN generationHistory' = generationHistory \o dungeon'.rooms
           ELSE generationHistory' = generationHistory ]_vars

\* A second dungeon has returned: its two rooms follow those of the first
GenerateDungeonOnlyAppendsWitness ==
  /\ calls = 2
  /\ gen.pc = "idle"
  /\ dungeon.status = "resolved"
  /\ Len(dungeon.rooms) = 2
  /\ Len(generationHistory) > 2
  /\ SubSeq(generationHistory, Len(generationHistory) - 1,
            Len(generationHistory)) = dungeon.rooms

\* ------------------------------------------------------------- room ids

\* C39: the ids of the rooms of the generation history are pairwise
\* different, also those of rooms of different dungeons
RoomIdsUnique ==
  \A i, j \in DOMAIN generationHistory :
    generationHistory[i].id = generationHistory[j].id => i = j

\* ------------------------------------------------------------- traversal

\* The cells of a layout a player can stand on: floor cells and doors
Passable(layout) ==
  UNION { { <<x, y>> : x \in { k \in 0..(Len(layout[y + 1]) - 1) :
                                 Cell(layout, k, y) \in {1, 2} } } :
          y \in 0..(Len(layout) - 1) }

\* The passable cells next to one of the cells, diagonals included
Around(layout, cells) ==
  { c \in Passable(layout) :
      \E d \in cells : Abs(c[1] - d[1]) <= 1 /\ Abs(c[2] - d[2]) <= 1 }

\* The cells reached from the cells by steps between neighbouring passable
\* cells
RECURSIVE ReachedFrom(_, _)
ReachedFrom(layout, cells) ==
  LET more == cells \cup Around(layout, cells)
  IN IF more = cells THEN cells ELSE ReachedFrom(layout, more)

\* The bottom door of the layout is reached from its top door
DoorsConnected(layout) ==
  LET size == Len(layout)
  IN <<size \div 2, size - 1>> \in ReachedFrom(layout, {<<size \div 2, 0>>})

\* C40: in every generated room the top door and the bottom door are joined
\* by a path of neighbouring floor cells
DoorsJoinedByFloor ==
  \A room \in AllRooms : DoorsConnected(room.layout)

\* ------------------------------------------------------------- weight keys

\* C35: in every reachable state the keys of the strategyWeights of a boss
\* are exactly the ids of the catalog
WeightKeysAreCatalog ==
  \A b \in DOMAIN bossStates :
    DOMAIN bossStates[b].strategyWeights = StrategyIds

\* ------------------------------------------------------------- learning frame

\* What learnFromOutcome(TheBoss, strategyId, .) leaves alone
LearnTouchesOneWeight(strategyId) ==
  LET old == bossStates[TheBoss]
      new == bossStates'[TheBoss]
  IN /\ DOMAIN new.strategyWeights = DOMAIN old.strategyWeights \cup {strategyId}
     /\ \A k \in DOMAIN old.strategyWeights \ {strategyId} :
          new.strategyWeights[k] = old.strategyWeights[k]
     /\ new.playerBehavior = old.playerBehavior
     /\ new.currentPhase = old.currentPhase
     /\ new.learningRate = old.learningRate
     /\ new.aggressionLevel = old.aggressionLevel
     /\ Len(new.adaptations) = Len(old.adaptations)
     /\ behaviorHistory' = behaviorHistory
     /\ \A b \in DOMAIN bossStates \ {TheBoss} : bossStates'[b] = bossStates[b]

\* C36: learnFromOutcome changes the weight of strategyId only: the other
\* weights, the profile, the history, currentPhase, learningRate and
\* aggressionLevel stay as they were and no adaptation entry is added or
\* removed
LearnChangesOneWeight ==
  [][ \A id \in LogLearnIds, o \in LogOutcomes :
        (Known(TheBoss) /\ LearnFromOutcome(TheBoss, id, o)) =>
          LearnTouchesOneWeight(id) ]_vars

\* close-gap was learned after enrage, with two entries in the log: the
\* weight of enrage was kept
LearnChangesOneWeightWitness ==
  /\ Known(TheBoss)
  /\ lastCall.op = "learnFromOutcome"
  /\ Len(bossStates[TheBoss].adaptations) >= 2
  /\ "enrage" \in DOMAIN bossStates[TheBoss].strategyWeights
  /\ bossStates[TheBoss].strategyWeights["enrage"] # Scale
  /\ bossStates[TheBoss].strategyWeights["close-gap"] # Scale

\* ------------------------------------------------------------- losing streak

\* C37: a strategy that keeps failing (playerHit false, damageDealt 0,
\* playerDodged true) has its weight brought to the floor 0.1, where it
\* stays: after MaxWorst failures in a row the weight is 0.1
WorstOutcomesReachFloor ==
  (Known(TheBoss) /\ calls = MaxWorst) =>
    bossStates[TheBoss].strategyWeights["close-gap"] = Scale \div 10

\* ------------------------------------------------------------- boss rooms

\* The rooms of the dungeon returned last
ReturnedRooms == IF dungeon.status = "resolved" THEN dungeon.rooms ELSE << >>

\* C38 as stated: a dungeon of at least one room has exactly one boss room,
\* its last room
OnlyLastRoomIsBoss ==
  Len(ReturnedRooms) >= 1 =>
    \A k \in DOMAIN ReturnedRooms :
      ReturnedRooms[k].type = "boss" <=> k = Len(ReturnedRooms)

\* The last room of a dungeon of at least one room is a boss room, and an
\* earlier room is a boss room only past 80% of the dungeon:
\* roomIndex / roomCount > 0.8
LastRoomIsBossOthersLate ==
  Len(ReturnedRooms) >= 1 =>
    /\ ReturnedRooms[Len(ReturnedRooms)].type = "boss"
    /\ \A k \in DOMAIN ReturnedRooms :
         ReturnedRooms[k].type = "boss" =>
           \/ k = Len(ReturnedRooms)
           \/ 5 * (k - 1) > 4 * Len(ReturnedRooms)

\* Room 9 of a dungeon of eleven rooms is a boss room
LastRoomIsBossOthersLateWitness ==
  /\ Len(ReturnedRooms) = 11
  /\ ReturnedRooms[10].type = "boss"
  /\ ReturnedRooms[11].type = "boss"

====
